---------------------------- MODULE Spec2Model ----------------------------
(***************************************************************************)
(* Split Bot: the order-decision engine of src/bot/main.py (SplitBot) and  *)
(* the ledger of src/bot/split_strategy.py (StockConfig, Purchase), for    *)
(* one tracked instrument.                                                 *)
(*                                                                         *)
(* The program is an asyncio program: one coroutine runs at a time and     *)
(* control changes hands only at an await that really suspends.  The       *)
(* variable running names the coroutine that holds the event loop; a       *)
(* coroutine is split into steps, and between two steps of one synchronous *)
(* stretch no other coroutine can act.                                     *)
(***************************************************************************)
EXTENDS Integers, Sequences, FiniteSets, TLC

(***************************************************************************)
(* Bounds of the model.                                                    *)
(***************************************************************************)
MaxTime == 6            \* the clock stops advancing here (seconds)
MaxPurchases == 2       \* rows of the purchase table / entries of the ledger

(***************************************************************************)
(* Program constants.                                                      *)
(***************************************************************************)
MAX_SLIPPAGE_RATE == 3          \* main.py:20
MIN_AVAILABLE_AMOUNT == 30000   \* main.py:40
SELL_QUIET_SECONDS == 5         \* main.py:172
REORDER_SECONDS == 60           \* split_strategy.py:192
None == -1                      \* Python's None for an Optional[int] / datetime

(***************************************************************************)
(* The inputs the environment draws from.                                  *)
(***************************************************************************)
TickTasks == {"stream", "poll"}         \* the two callers of on_price_update
Tasks == TickTasks \cup {"web"}
TickPrices == {9000, 10500}
RefetchPrices == {0, 9270, 9300}        \* get_current_price after a trigger; 0 = no price
FreshPrices == {9000}                   \* get_current_price for a manual request
ExecutedPrices == {0, 8990}             \* get_executed_price; 0 = unresolved
Amounts == {20000, 50000}              \* available buying power
WebQuantities == {10}
ClockSteps == {6}

(***************************************************************************)
(* Purchase (split_strategy.py:13-24) and the rows of bot_purchases.       *)
(* id 0 is None; sold_price, trigger_price 0 is None.                      *)
(***************************************************************************)
Purchase(id, round, price, quantity, trigger_price) ==
    [id |-> id, round |-> round, price |-> price, quantity |-> quantity,
     status |-> "holding", sold_price |-> 0, trigger_price |-> trigger_price]

Row(round, price, quantity) ==
    [round |-> round, price |-> price, quantity |-> quantity,
     status |-> "holding", sold_price |-> 0]

\* load_all_stocks builds a Purchase from each row; trigger_price is not read.
RowToPurchase(rows, i) ==
    [id |-> i, round |-> rows[i].round, price |-> rows[i].price,
     quantity |-> rows[i].quantity, status |-> rows[i].status,
     sold_price |-> rows[i].sold_price, trigger_price |-> 0]

load_all_stocks(rows) == [i \in 1..Len(rows) |-> RowToPurchase(rows, i)]

\* One holding round; or two, the second bought by hand above the first, so that
\* one price can be a sell signal for round 1 and a buy signal for round 3.
InitTables == { <<Row(1, 10000, 10)>>,
                <<Row(1, 8500, 10), Row(2, 10000, 10)>> }

(***************************************************************************)
(* StockConfig: derived properties and the strategy evaluator.             *)
(***************************************************************************)
Min(a, b) == IF a < b THEN a ELSE b
Max(a, b) == IF a > b THEN a ELSE b
Abs(a) == IF a < 0 THEN 0 - a ELSE a

\* Indices into purchases of the holding entries.
HoldingIdx(ps) == { i \in 1..Len(ps) : ps[i].status = "holding" }

\* sorted(..., key=round): ascending round, ties in list order (stable).
RECURSIVE SortIdxByRound(_, _)
SortIdxByRound(ps, idxs) ==
    IF idxs = {} THEN <<>>
    ELSE LET m == CHOOSE i \in idxs :
                    \A j \in idxs : \/ ps[i].round < ps[j].round
                                    \/ (ps[i].round = ps[j].round /\ i <= j)
         IN  <<m>> \o SortIdxByRound(ps, idxs \ {m})

\* holding_purchases, as indices into purchases
holding_idx(s) == SortIdxByRound(s.purchases, HoldingIdx(s.purchases))

holding_purchases(s) ==
    LET h == holding_idx(s) IN [k \in 1..Len(h) |-> s.purchases[h[k]]]

current_round(s) ==
    LET h == holding_purchases(s) IN IF h = <<>> THEN 0 ELSE h[Len(h)].round

\* int(price * (1 - rate / 100)), rate a whole percentage
SplitTarget(price, rate) == (price * (100 - rate)) \div 100

\* int(price * (1 + rate / 100))
SellTarget(price, rate) == (price * (100 + rate)) \div 100

get_next_split_price(s) ==
    LET h == holding_purchases(s)
        cr == current_round(s)
    IN  IF cr >= s.max_rounds THEN None
        ELSE IF cr = 0 THEN None
        ELSE IF cr >= Len(s.split_rates) THEN None
        ELSE SplitTarget(h[Len(h)].price,
                         s.split_rates[Min(cr - 1, Len(s.split_rates) - 1) + 1])

\* a buy condition that also holds with no holding round
should_buy_from_empty(s, current_price, now_) ==
    /\ s.is_active
    /\ current_round(s) < s.max_rounds
    /\ ~s.order_pending
    /\ ~(s.last_order_time # None /\ now_ - s.last_order_time < REORDER_SECONDS)
    /\ \/ current_round(s) = 0
       \/ LET sp == get_next_split_price(s)
          IN  sp # None /\ sp # 0 /\ current_price <= sp

\* a buy condition whose price boundary is exclusive
should_buy_strict(s, current_price, now_) ==
    /\ s.is_active
    /\ current_round(s) < s.max_rounds
    /\ current_round(s) # 0
    /\ ~s.order_pending
    /\ ~(s.last_order_time # None /\ now_ - s.last_order_time < REORDER_SECONDS)
    /\ LET sp == get_next_split_price(s)
       IN  sp # None /\ sp # 0 /\ current_price < sp

should_buy(s, current_price, now_) ==
    /\ s.is_active
    /\ current_round(s) < s.max_rounds
    /\ current_round(s) # 0
    /\ ~s.order_pending
    /\ ~(s.last_order_time # None /\ now_ - s.last_order_time < REORDER_SECONDS)
    /\ LET sp == get_next_split_price(s)
       IN  sp # None /\ sp # 0 /\ current_price <= sp

calculate_buy_quantity(s, current_price) ==
    IF current_price <= 0 THEN 0
    ELSE IF s.buy_mode = "quantity" THEN Max(1, s.buy_quantity)
    ELSE Max(1, s.buy_amount \div current_price)

sellable_target(s, p) ==
    SellTarget(p.price, s.target_rates[Min(p.round - 1, Len(s.target_rates) - 1) + 1])

get_sellable_purchases(s, current_price) ==
    SortIdxByRound(s.purchases,
        { i \in HoldingIdx(s.purchases) :
              current_price >= sellable_target(s, s.purchases[i]) })

RECURSIVE DropRound(_, _, _)
DropRound(ps, idxs, round) ==
    IF idxs = <<>> THEN <<>>
    ELSE IF ps[idxs[1]].round # round
         THEN <<idxs[1]>> \o DropRound(ps, Tail(idxs), round)
         ELSE DropRound(ps, Tail(idxs), round)

should_sell(s, current_price) ==
    IF ~s.is_active \/ current_round(s) = 0 THEN <<>>
    ELSE LET sellable == get_sellable_purchases(s, current_price)
         IN  IF s.order_pending /\ s.pending_type = "sell"
             THEN DropRound(s.purchases, sellable, s.pending_round)
             ELSE sellable

set_order_pending(s, order_type, round_num) ==
    [s EXCEPT !.order_pending = TRUE, !.pending_type = order_type,
              !.pending_round = round_num]

\* a clear that does nothing
clear_order_pending_skipped(s) == s

\* a clear that resets the side and the round but leaves the flag
clear_order_pending_keeps_flag(s) ==
    [s EXCEPT !.pending_type = "none", !.pending_round = 0]

clear_order_pending(s) ==
    [s EXCEPT !.order_pending = FALSE, !.pending_type = "none",
              !.pending_round = 0]

\* round_num 0 stands for "not given" (and Python treats 0 as not given too)
is_order_pending(s, order_type, round_num) ==
    /\ s.order_pending
    /\ ~(order_type # "none" /\ s.pending_type # order_type)
    /\ ~(round_num # 0 /\ s.pending_round # round_num)

add_purchase(s, price, quantity, trigger_price, now_) ==
    [s EXCEPT !.purchases = Append(@, Purchase(0, current_round(s) + 1, price,
                                               quantity, trigger_price)),
              !.last_order_time = now_]

mark_sold(s, i, sold_price) ==
    [s EXCEPT !.purchases[i].status = "sold",
              !.purchases[i].sold_price = sold_price]

(***************************************************************************)
(* State.                                                                  *)
(***************************************************************************)
VARIABLES
    stock,             \* strategy.stocks[code]: the StockConfig of the instrument
    gen,               \* identity of the list object stock.purchases
    db,                \* table bot_purchases of the instrument (row id = index)
    db_active,         \* column is_active of the instrument's bot_stocks row
    lock,              \* _stock_locks[code]: its holder, "none" when free
    recent_sells,      \* _recent_sells.get(code): a time, or None
    prices,            \* _prices.get(code, 0)
    available_amount,  \* _available_amount
    now,               \* datetime.now(), in seconds
    market_open,       \* is_market_open()
    bot_enabled,       \* _bot_enabled / check_bot_enabled()
    task,              \* each coroutine's position and locals
    running,           \* the coroutine that holds the event loop, or "none"
    last_sell_time,    \* history: when the broker last accepted a sell order
    db_stock,          \* sizing columns of the instrument's bot_stocks row
    kis_ws,            \* the KisWebSocket singleton and the position of connect()
    poller,            \* poll_prices: its position and locals
    kis_api,           \* the KisAPI singleton: its token and the position of a price query
    requests,          \* rows of bot_buy_requests and bot_sync_requests, and what was done for them
    reload_counter     \* send_heartbeat: its local reload_counter

vars == <<stock, gen, db, db_active, lock, recent_sells, prices,
          available_amount, now, market_open, bot_enabled, task, running,
          last_sell_time, db_stock, kis_ws, poller, kis_api, requests, reload_counter>>

\* bot_stocks columns buy_amount, buy_mode, buy_quantity as the StockConfig
\* defaults have them (split_strategy.py:34-36)
DefaultColumns == [buy_amount |-> 100000, buy_mode |-> "amount", buy_quantity |-> 1]

\* KisWebSocket.__init__ (kis_websocket.py:19-26); pc is the position of connect()
KisWebSocket == [pc |-> "created", running |-> FALSE, connection_failed_count |-> 0,
                 wait_time |-> 0, wake |-> 0]

\* poll_prices before its first cycle
\* batch_result is how get_prices_batch ended, queried the codes get_price was
\* called for; stocks is len(strategy.stocks); batches the slices [start_idx, end_idx) made in
\* the cycle; interval the argument of the last asyncio.sleep that ended a cycle
PollerIdle == [pc |-> "sleep", is_market_open |-> FALSE, enabled |-> FALSE, i |-> 0,
               valid_prices |-> <<>>, passed |-> {}, batch_result |-> "none",
               queried |-> {},
               stocks |-> 0, num_stocks |-> 0, batch_idx |-> 0, batches |-> <<>>,
               interval |-> 0]

\* KisAPI.__init__ (kis_api.py:24-29) and the class attributes of the cooldown
\* (kis_api.py:180-181); has_token: _access_token is set and not near its expiry;
\* pc is the position of a price query
KisAPI == [pc |-> "idle", has_token |-> FALSE, last_token_refresh |-> None,
           token_refresh_failures |-> 0]

\* no request row yet.  buy, sync: column status of the one row of
\* bot_buy_requests / bot_sync_requests ("none": no row); buy_orders: broker buy
\* orders accepted for the buy request; fills: the position of
\* execute_sync_request in `for order in orders`; pc: the position of
\* process_web_requests
NoRequests == [buy |-> "none", buy_orders |-> 0, sync |-> "none", fills |-> 0,
               pc |-> "idle"]

NoRef == [gen |-> 0, idx |-> 0, id |-> 0, round |-> 0, quantity |-> 0]

\* order: what the broker answered to the order of the handler, order["success"];
\* attempt: the loop variable of get_executed_price
Idle == [pc |-> "idle", price |-> 0, sells |-> <<>>, k |-> 0, round |-> 0,
         quantity |-> 0, ref |-> NoRef, refetch |-> 0, exc |-> FALSE,
         order |-> "none", attempt |-> 0]

\* A reference to the Purchase object at purchases[i] of the current list.
MakeRef(s, g, i) ==
    [gen |-> g, idx |-> i, id |-> s.purchases[i].id,
     round |-> s.purchases[i].round, quantity |-> s.purchases[i].quantity]

InitStock(rows) ==
    [is_active |-> TRUE, buy_amount |-> 100000, buy_mode |-> "amount",
     buy_quantity |-> 1, max_rounds |-> 3,
     split_rates |-> <<10, 10, 10>>, target_rates |-> <<5, 5>>,
     purchases |-> load_all_stocks(rows),
     last_order_time |-> None,
     order_pending |-> FALSE, pending_type |-> "none", pending_round |-> 0]

\* SplitBot.__init__ and load_stocks_from_db
Init ==
    /\ db \in InitTables
    /\ stock = InitStock(db)
    /\ gen = 0
    /\ db_active = TRUE
    /\ lock = "none"
    /\ recent_sells = None
    /\ prices = 0
    /\ available_amount = None
    /\ now = 0
    /\ market_open \in BOOLEAN
    /\ bot_enabled = FALSE
    /\ task = [t \in Tasks |-> Idle]
    /\ running = "none"
    /\ last_sell_time = None
    /\ db_stock = DefaultColumns
    /\ kis_ws = KisWebSocket
    /\ poller = PollerIdle
    /\ kis_api = KisAPI
    /\ requests = NoRequests
    /\ reload_counter = 0

Go(t, pc) == task' = [task EXCEPT ![t].pc = pc]
Finish(t) == task' = [task EXCEPT ![t] = Idle]

(***************************************************************************)
(* on_price_update (main.py:124-178), called by the streaming callback and *)
(* by the polling loop.                                                    *)
(***************************************************************************)
RECURSIVE Refs(_, _, _)
Refs(s, g, idxs) ==
    IF idxs = <<>> THEN <<>>
    ELSE <<MakeRef(s, g, idxs[1])>> \o Refs(s, g, Tail(idxs))

\* a check that never sees the lock held
lock_never_locked == FALSE

\* lock.locked(): the tick is skipped when the instrument's lock is held
lock_locked == lock # "none"

\* on_price_update without the skip on a held lock
on_price_update_no_skip(t, price) ==
    /\ running = "none"
    /\ task[t].pc = "idle"
    /\ prices' = price
    /\ IF ~bot_enabled \/ ~market_open
       THEN UNCHANGED <<lock, running, task>>
       ELSE /\ lock' = t
            /\ running' = t
            /\ task' = [task EXCEPT ![t] =
                   [Idle EXCEPT !.pc = "sell_loop", !.price = price,
                                !.sells = Refs(stock, gen, should_sell(stock, price)),
                                !.k = 1]]
    /\ UNCHANGED <<last_sell_time, stock, gen, db, db_active, recent_sells,
                   available_amount, now, market_open, bot_enabled>>
    /\ UNCHANGED <<db_stock, kis_ws, poller, kis_api, requests, reload_counter>>

on_price_update(t, price) ==
    /\ running = "none"
    /\ task[t].pc = "idle"
    /\ prices' = price
    /\ IF ~bot_enabled \/ ~market_open
       THEN UNCHANGED <<lock, running, task>>
       ELSE IF lock_locked
       THEN UNCHANGED <<lock, running, task>>
       ELSE /\ lock' = t
            /\ running' = t
            /\ task' = [task EXCEPT ![t] =
                   [Idle EXCEPT !.pc = "sell_loop", !.price = price,
                                !.sells = Refs(stock, gen, should_sell(stock, price)),
                                !.k = 1]]
    /\ UNCHANGED <<last_sell_time, stock, gen, db, db_active, recent_sells, available_amount,
                   now, market_open, bot_enabled>>
    /\ UNCHANGED <<db_stock, kis_ws, poller, kis_api, requests, reload_counter>>

\* execute_sell, up to the pending flag (main.py:274-288)
execute_sell_begin(t) ==
    /\ running = t
    /\ task[t].pc = "sell_loop"
    /\ task[t].k <= Len(task[t].sells)
    /\ LET r == task[t].sells[task[t].k]
       IN  /\ stock' = set_order_pending(stock, "sell", r.round)
           /\ task' = [task EXCEPT ![t].pc = "sell_order", ![t].ref = r,
                                   ![t].round = r.round, ![t].quantity = r.quantity]
    /\ UNCHANGED <<last_sell_time, gen, db, db_active, lock, recent_sells, prices,
                   available_amount, now, market_open, bot_enabled, running>>
    /\ UNCHANGED <<db_stock, kis_ws, poller, kis_api, requests, reload_counter>>

\* mark_sold acts on the Purchase object the reference names; the object is part
\* of the ledger only while the list it was taken from is still the ledger.
MarkSoldRef(s, g, r, sold_price) ==
    IF r.gen = g THEN mark_sold(s, r.idx, sold_price) ELSE s

\* mark_purchase_sold: PATCH of the row; "error" is an HTTP error answer
MarkRowSold(rows, id, sold_price, outcome) ==
    IF outcome = "ok" /\ id \in 1..Len(rows)
    THEN [rows EXCEPT ![id].status = "sold", ![id].sold_price = sold_price]
    ELSE rows

DbOutcomes == {"ok", "error", "raise"}

\* execute_sell: the order, the ledger, the table (main.py:290-305)
sell_order(t) ==
    /\ running = t
    /\ task[t].pc = "sell_order"
    /\ \E success \in BOOLEAN, outcome \in DbOutcomes :
         /\ last_sell_time' = IF success THEN now ELSE last_sell_time
         /\ IF success
            THEN /\ stock' = MarkSoldRef(stock, gen, task[t].ref, task[t].price)
                 /\ IF task[t].ref.id # 0
                    THEN /\ db' = MarkRowSold(db, task[t].ref.id, task[t].price, outcome)
                         /\ IF outcome = "raise"
                            THEN /\ task' = [task EXCEPT ![t].pc = "sell_finally",
                                                         ![t].exc = TRUE,
                                                         ![t].order = "accepted"]
                                 /\ UNCHANGED running
                            ELSE /\ task' = [task EXCEPT ![t].pc = "sell_notify",
                                                         ![t].order = "accepted"]
                                 /\ running' = "none"
                    ELSE /\ outcome = "ok"
                         /\ task' = [task EXCEPT ![t].pc = "sell_notify",
                                                 ![t].order = "accepted"]
                         /\ running' = "none"
                         /\ UNCHANGED db
            ELSE /\ outcome = "ok"
                 /\ task' = [task EXCEPT ![t].pc = "sell_notify",
                                         ![t].order = "refused"]
                 /\ running' = "none"
                 /\ UNCHANGED <<stock, db>>
    /\ UNCHANGED <<gen, db_active, lock, recent_sells, prices, available_amount,
                   now, market_open, bot_enabled>>
    /\ UNCHANGED <<db_stock, kis_ws, poller, kis_api, requests, reload_counter>>

\* await notifier.send_sell_alert(...) returns (main.py:308-316)
sell_resume(t) ==
    /\ running = "none"
    /\ task[t].pc = "sell_notify"
    /\ running' = t
    /\ Go(t, "sell_finally")
    /\ UNCHANGED <<last_sell_time, stock, gen, db, db_active, lock, recent_sells, prices,
                   available_amount, now, market_open, bot_enabled>>
    /\ UNCHANGED <<db_stock, kis_ws, poller, kis_api, requests, reload_counter>>

\* finally: clear_order_pending (main.py:317-319); back in on_price_update the
\* sell time is recorded (main.py:166), unless an exception is on its way out.
sell_finally(t) ==
    /\ running = t
    /\ task[t].pc = "sell_finally"
    /\ stock' = clear_order_pending(stock)
    /\ IF task[t].exc
       THEN /\ Finish(t)
            /\ lock' = "none"
            /\ running' = "none"
            /\ UNCHANGED recent_sells
       ELSE /\ recent_sells' = now
            /\ task' = [task EXCEPT ![t].pc = "sell_loop", ![t].k = @ + 1,
                                    ![t].ref = NoRef, ![t].round = 0,
                                    ![t].quantity = 0, ![t].order = "none"]
            /\ UNCHANGED <<lock, running>>
    /\ UNCHANGED <<last_sell_time, gen, db, db_active, prices, available_amount, now,
                   market_open, bot_enabled>>
    /\ UNCHANGED <<db_stock, kis_ws, poller, kis_api, requests, reload_counter>>

\* no quiet period after a sell
no_quiet_period == FALSE

\* elapsed < 5 after a sell: the buy check is skipped (main.py:168-173)
in_quiet_period == recent_sells # None /\ now - recent_sells < SELL_QUIET_SECONDS

\* the rest of on_price_update once the sells are done (main.py:168-178)
buy_check(t) ==
    /\ running = t
    /\ task[t].pc = "sell_loop"
    /\ task[t].k > Len(task[t].sells)
    /\ IF in_quiet_period
       THEN /\ Finish(t)
            /\ lock' = "none"
            /\ running' = "none"
       ELSE IF should_buy(stock, task[t].price, now)
       THEN /\ task' = [task EXCEPT ![t].pc = "execute_buy",
                                    ![t].quantity = calculate_buy_quantity(stock, task[t].price),
                                    ![t].round = current_round(stock) + 1]
            /\ UNCHANGED <<lock, running>>
       ELSE /\ Finish(t)
            /\ lock' = "none"
            /\ running' = "none"
    /\ UNCHANGED <<last_sell_time, stock, gen, db, db_active, recent_sells, prices,
                   available_amount, now, market_open, bot_enabled>>
    /\ UNCHANGED <<db_stock, kis_ws, poller, kis_api, requests, reload_counter>>


(***************************************************************************)
(* execute_buy (main.py:180-272).                                          *)
(***************************************************************************)
\* a balance check that never refuses
amount_never_low == FALSE

\* self._available_amount is not None and below the minimum (main.py:189)
amount_too_low ==
    available_amount # None /\ available_amount < MIN_AVAILABLE_AMOUNT

execute_buy_begin(t) ==
    /\ running = t
    /\ task[t].pc = "execute_buy"
    /\ IF amount_too_low
       THEN /\ Finish(t)
            /\ lock' = "none"
            /\ running' = "none"
            /\ UNCHANGED stock
       ELSE /\ stock' = set_order_pending(stock, "buy", task[t].round)
            /\ Go(t, "buy_slippage")
            /\ UNCHANGED <<lock, running>>
    /\ UNCHANGED <<last_sell_time, gen, db, db_active, recent_sells, prices, available_amount,
                   now, market_open, bot_enabled>>
    /\ UNCHANGED <<db_stock, kis_ws, poller, kis_api, requests, reload_counter>>

\* the guard with >= in place of >
slippage_exceeded_inclusive(current_price, trigger_price) ==
    /\ current_price > 0
    /\ Abs(current_price - trigger_price) * 100 >= MAX_SLIPPAGE_RATE * trigger_price

\* abs(current_price - trigger_price) / trigger_price * 100 > MAX_SLIPPAGE_RATE,
\* checked only when the price was fetched (main.py:201-204)
slippage_exceeded(current_price, trigger_price) ==
    /\ current_price > 0
    /\ Abs(current_price - trigger_price) * 100 > MAX_SLIPPAGE_RATE * trigger_price

\* the slippage guard (main.py:199-208)
buy_slippage(t) ==
    /\ running = t
    /\ task[t].pc = "buy_slippage"
    /\ \E current_price \in RefetchPrices :
         IF slippage_exceeded(current_price, task[t].price)
         THEN /\ stock' = clear_order_pending(stock)
              /\ task' = [task EXCEPT ![t].pc = "buy_finally",
                                      ![t].refetch = current_price]
         ELSE /\ task' = [task EXCEPT ![t].pc = "buy_order",
                                      ![t].refetch = current_price]
              /\ UNCHANGED stock
    /\ UNCHANGED <<last_sell_time, gen, db, db_active, lock, recent_sells, prices,
                   available_amount, now, market_open, bot_enabled, running>>
    /\ UNCHANGED <<db_stock, kis_ws, poller, kis_api, requests, reload_counter>>

\* buy_stock (main.py:210-214)
buy_order(t) ==
    /\ running = t
    /\ task[t].pc = "buy_order"
    /\ \E success \in BOOLEAN :
         IF success
         THEN /\ Len(stock.purchases) < MaxPurchases
              /\ task' = [task EXCEPT ![t].pc = "executed_price",
                                      ![t].order = "accepted", ![t].attempt = 0]
         ELSE task' = [task EXCEPT ![t].pc = "buy_alert", ![t].order = "refused"]
    /\ UNCHANGED <<last_sell_time, stock, gen, db, db_active, lock, recent_sells, prices,
                   available_amount, now, market_open, bot_enabled, running>>
    /\ UNCHANGED <<db_stock, kis_ws, poller, kis_api, requests, reload_counter>>

\* a fallback that records whatever the query returned
fill_price_unchecked(executed_price, trigger_price) == executed_price

\* executed_price <= 0: the trigger price stands in (main.py:216-220)
fill_price(executed_price, trigger_price) ==
    IF executed_price <= 0 THEN trigger_price ELSE executed_price

\* one pass of `for attempt in range(3)` in get_executed_price
\* (kis_api.py:731-757): a query of the order history that finds the fill
\* ends the loop, the third one that does not ends it with 0; then the round
\* is added (main.py:216-226).  time.sleep blocks, nothing runs in between.
get_executed_price(t) ==
    /\ running = t
    /\ task[t].pc = "executed_price"
    /\ \E executed_price \in ExecutedPrices :
         IF executed_price <= 0 /\ task[t].attempt < 2
         THEN /\ task' = [task EXCEPT ![t].attempt = @ + 1]
              /\ UNCHANGED stock
         ELSE /\ stock' = add_purchase(stock,
                                       fill_price(executed_price, task[t].price),
                                       task[t].quantity, task[t].price, now)
              /\ task' = [task EXCEPT ![t].pc = "buy_save", ![t].attempt = 0]
    /\ UNCHANGED <<last_sell_time, gen, db, db_active, lock, recent_sells, prices,
                   available_amount, now, market_open, bot_enabled, running>>
    /\ UNCHANGED <<db_stock, kis_ws, poller, kis_api, requests, reload_counter>>

SetLastId(s, id) == [s EXCEPT !.purchases[Len(s.purchases)].id = id]

LastRow(s) ==
    LET p == s.purchases[Len(s.purchases)] IN Row(p.round, p.price, p.quantity)

SaveOutcomes == {"saved", "none", "raise"}

\* save_purchase and the handling of its failure (main.py:228-252)
buy_save(t) ==
    /\ running = t
    /\ task[t].pc = "buy_save"
    /\ \E outcome \in SaveOutcomes :
         CASE outcome = "saved" ->
                /\ Len(db) < MaxPurchases
                /\ db' = Append(db, LastRow(stock))
                /\ stock' = SetLastId(stock, Len(db) + 1)
                /\ Go(t, "buy_alert")
                /\ UNCHANGED <<db_active, running>>
           [] outcome = "none" ->
                /\ stock' = [stock EXCEPT !.is_active = FALSE]
                /\ \E stored \in BOOLEAN :
                     db_active' = IF stored THEN FALSE ELSE db_active
                /\ Go(t, "buy_error_notify")
                /\ running' = "none"
                /\ UNCHANGED db
           [] outcome = "raise" ->
                /\ task' = [task EXCEPT ![t].pc = "buy_finally", ![t].exc = TRUE]
                /\ UNCHANGED <<stock, db, db_active, running>>
    /\ UNCHANGED <<last_sell_time, gen, lock, recent_sells, prices, available_amount, now,
                   market_open, bot_enabled>>
    /\ UNCHANGED <<db_stock, kis_ws, poller, kis_api, requests, reload_counter>>

\* await notifier.send_error(...) returns (main.py:243-252)
buy_error_resume(t) ==
    /\ running = "none"
    /\ task[t].pc = "buy_error_notify"
    /\ running' = t
    /\ Go(t, "buy_alert")
    /\ UNCHANGED <<last_sell_time, stock, gen, db, db_active, lock, recent_sells, prices,
                   available_amount, now, market_open, bot_enabled>>
    /\ UNCHANGED <<db_stock, kis_ws, poller, kis_api, requests, reload_counter>>

\* notifier.send_buy_alert(..., error_message=...) (main.py:260-269):
\* TelegramNotifier.send_buy_alert takes no error_message, the call raises
\* TypeError before anything is awaited.
buy_alert(t) ==
    /\ running = t
    /\ task[t].pc = "buy_alert"
    /\ task' = [task EXCEPT ![t].pc = "buy_finally", ![t].exc = TRUE]
    /\ UNCHANGED <<last_sell_time, stock, gen, db, db_active, lock, recent_sells, prices,
                   available_amount, now, market_open, bot_enabled, running>>
    /\ UNCHANGED <<db_stock, kis_ws, poller, kis_api, requests, reload_counter>>

\* finally: clear_order_pending (main.py:270-272); execute_buy is over and so
\* is on_price_update, whose async with releases the lock.
buy_finally(t) ==
    /\ running = t
    /\ task[t].pc = "buy_finally"
    /\ stock' = clear_order_pending(stock)
    /\ Finish(t)
    /\ lock' = "none"
    /\ running' = "none"
    /\ UNCHANGED <<last_sell_time, gen, db, db_active, recent_sells, prices, available_amount,
                   now, market_open, bot_enabled>>
    /\ UNCHANGED <<db_stock, kis_ws, poller, kis_api, requests, reload_counter>>


(***************************************************************************)
(* Manual requests from the web: process_web_requests (main.py:551-582),   *)
(* execute_web_buy_request (975-1076), execute_web_sell_request (1087-1166)*)
(***************************************************************************)
\* process_web_requests handles buy and sell requests only in market hours
\* with the bot enabled (main.py:570-582)
web_requests_open == market_open /\ bot_enabled

execute_web_buy_request(quantity) ==
    /\ running = "none"
    /\ task["web"].pc = "idle"
    /\ web_requests_open
    /\ IF amount_too_low
       THEN UNCHANGED <<stock, task, running>>
       ELSE IF is_order_pending(stock, "buy", 0)
       THEN UNCHANGED <<stock, task, running>>
       ELSE /\ stock' = set_order_pending(stock, "buy", current_round(stock) + 1)
            /\ task' = [task EXCEPT !["web"] =
                   [Idle EXCEPT !.pc = "wb_order", !.quantity = quantity,
                                !.round = current_round(stock) + 1]]
            /\ running' = "web"
    /\ UNCHANGED <<last_sell_time, gen, db, db_active, lock, recent_sells, prices,
                   available_amount, now, market_open, bot_enabled>>
    /\ UNCHANGED <<db_stock, kis_ws, poller, kis_api, requests, reload_counter>>

\* the price of a market order: the cached price, else a fresh one
\* (main.py:1034-1036; 1121-1123)
CachedOrFresh == IF prices > 0 THEN {prices} ELSE FreshPrices

\* buy_stock and add_purchase (main.py:1026-1039); a refused order ends in
\* send_buy_alert(..., error_message=...), which raises TypeError (1066-1074)
wb_order ==
    /\ running = "web"
    /\ task["web"].pc = "wb_order"
    /\ \E success \in BOOLEAN :
         /\ IF success
            THEN /\ Len(stock.purchases) < MaxPurchases
                 /\ \E buy_price \in CachedOrFresh :
                      stock' = add_purchase(stock, buy_price, task["web"].quantity,
                                            0, now)
                 /\ Go("web", "wb_save")
            ELSE /\ task' = [task EXCEPT !["web"].pc = "wb_finally",
                                         !["web"].exc = TRUE]
                 /\ UNCHANGED stock
    /\ UNCHANGED <<last_sell_time, gen, db, db_active, lock, recent_sells, prices,
                   available_amount, now, market_open, bot_enabled, running>>
    /\ UNCHANGED <<db_stock, kis_ws, poller, kis_api, requests, reload_counter>>

\* save_purchase, update_buy_request, then the alert is awaited (main.py:1041-1060)
wb_save ==
    /\ running = "web"
    /\ task["web"].pc = "wb_save"
    /\ \E outcome \in SaveOutcomes :
         CASE outcome = "saved" ->
                /\ Len(db) < MaxPurchases
                /\ db' = Append(db, LastRow(stock))
                /\ stock' = SetLastId(stock, Len(db) + 1)
                /\ Go("web", "wb_notify")
                /\ running' = "none"
           [] outcome = "none" ->
                /\ Go("web", "wb_notify")
                /\ running' = "none"
                /\ UNCHANGED <<stock, db>>
           [] outcome = "raise" ->
                /\ task' = [task EXCEPT !["web"].pc = "wb_finally",
                                        !["web"].exc = TRUE]
                /\ UNCHANGED <<stock, db, running>>
    /\ UNCHANGED <<last_sell_time, gen, db_active, lock, recent_sells, prices, available_amount,
                   now, market_open, bot_enabled>>
    /\ UNCHANGED <<db_stock, kis_ws, poller, kis_api, requests, reload_counter>>

wb_resume ==
    /\ running = "none"
    /\ task["web"].pc = "wb_notify"
    /\ running' = "web"
    /\ Go("web", "wb_finally")
    /\ UNCHANGED <<last_sell_time, stock, gen, db, db_active, lock, recent_sells, prices,
                   available_amount, now, market_open, bot_enabled>>
    /\ UNCHANGED <<db_stock, kis_ws, poller, kis_api, requests, reload_counter>>

\* finally: clear_order_pending (main.py:1075-1076)
wb_finally ==
    /\ running = "web"
    /\ task["web"].pc = "wb_finally"
    /\ stock' = clear_order_pending(stock)
    /\ Finish("web")
    /\ running' = "none"
    /\ UNCHANGED <<last_sell_time, gen, db, db_active, lock, recent_sells, prices,
                   available_amount, now, market_open, bot_enabled>>
    /\ UNCHANGED <<db_stock, kis_ws, poller, kis_api, requests, reload_counter>>

\* for p in stock.purchases: p.id == purchase_id and p.status == "holding"
FindHolding(s, purchase_id) ==
    LET found == { i \in 1..Len(s.purchases) :
                       /\ s.purchases[i].id = purchase_id
                       /\ s.purchases[i].status = "holding" }
    IN  IF found = {} THEN 0 ELSE CHOOSE i \in found : \A j \in found : i <= j

\* A sell request names a row of the table, with that row's round and quantity.
execute_web_sell_request(purchase_id) ==
    /\ running = "none"
    /\ task["web"].pc = "idle"
    /\ web_requests_open
    /\ purchase_id \in 1..Len(db)
    /\ LET round_num == db[purchase_id].round
           i == FindHolding(stock, purchase_id)
       IN  IF is_order_pending(stock, "sell", round_num) \/ i = 0
           THEN UNCHANGED <<stock, task, running>>
           ELSE \E current_price \in CachedOrFresh :
                  IF current_price <= 0
                  THEN UNCHANGED <<stock, task, running>>
                  ELSE /\ stock' = set_order_pending(stock, "sell", round_num)
                       /\ task' = [task EXCEPT !["web"] =
                              [Idle EXCEPT !.pc = "ws_order", !.price = current_price,
                                           !.round = round_num,
                                           !.quantity = db[purchase_id].quantity,
                                           !.ref = MakeRef(stock, gen, i)]]
                       /\ running' = "web"
    /\ UNCHANGED <<last_sell_time, gen, db, db_active, lock, recent_sells, prices,
                   available_amount, now, market_open, bot_enabled>>
    /\ UNCHANGED <<db_stock, kis_ws, poller, kis_api, requests, reload_counter>>

\* sell_stock, mark_sold, mark_purchase_sold, update_sell_request (main.py:1132-1164)
ws_order ==
    /\ running = "web"
    /\ task["web"].pc = "ws_order"
    /\ \E success \in BOOLEAN, outcome \in DbOutcomes :
         /\ last_sell_time' = IF success THEN now ELSE last_sell_time
         /\ IF success
            THEN /\ stock' = MarkSoldRef(stock, gen, task["web"].ref, task["web"].price)
                 /\ db' = MarkRowSold(db, task["web"].ref.id, task["web"].price, outcome)
                 /\ IF outcome = "raise"
                    THEN /\ task' = [task EXCEPT !["web"].pc = "ws_finally",
                                                 !["web"].exc = TRUE]
                         /\ UNCHANGED running
                    ELSE /\ Go("web", "ws_notify")
                         /\ running' = "none"
            ELSE /\ outcome = "ok"
                 /\ Go("web", "ws_finally")
                 /\ UNCHANGED <<stock, db, running>>
    /\ UNCHANGED <<gen, db_active, lock, recent_sells, prices, available_amount,
                   now, market_open, bot_enabled>>
    /\ UNCHANGED <<db_stock, kis_ws, poller, kis_api, requests, reload_counter>>

ws_resume ==
    /\ running = "none"
    /\ task["web"].pc = "ws_notify"
    /\ running' = "web"
    /\ Go("web", "ws_finally")
    /\ UNCHANGED <<last_sell_time, stock, gen, db, db_active, lock, recent_sells, prices,
                   available_amount, now, market_open, bot_enabled>>
    /\ UNCHANGED <<db_stock, kis_ws, poller, kis_api, requests, reload_counter>>

\* finally: clear_order_pending (main.py:1165-1166)
ws_finally ==
    /\ running = "web"
    /\ task["web"].pc = "ws_finally"
    /\ stock' = clear_order_pending(stock)
    /\ Finish("web")
    /\ running' = "none"
    /\ UNCHANGED <<last_sell_time, gen, db, db_active, lock, recent_sells, prices,
                   available_amount, now, market_open, bot_enabled>>
    /\ UNCHANGED <<db_stock, kis_ws, poller, kis_api, requests, reload_counter>>


(***************************************************************************)
(* The heartbeat task: _reload_stocks (main.py:919-962) and                *)
(* _update_balance (main.py:408-445).  Neither awaits anything.            *)
(***************************************************************************)
\* if len(new_stock.purchases) > len(existing.purchases): replace the list;
\* is_active follows the loaded row, which get_stocks selected as active.
merge_reloaded(s, loaded) ==
    [s EXCEPT !.purchases = IF Len(loaded) > Len(@) THEN loaded ELSE @,
              !.is_active = TRUE]

\* StockConfig(...) in load_all_stocks is given buy_amount but neither buy_mode
\* nor buy_quantity, which take the dataclass defaults
\* (supabase_client.py:268-279, split_strategy.py:35-36)
load_stock_settings(columns) ==
    [buy_amount |-> columns.buy_amount, buy_mode |-> "amount", buy_quantity |-> 1]

\* existing.buy_amount = new_stock.buy_amount, and so on (main.py:944-952)
copy_settings(s, new_stock) ==
    [s EXCEPT !.buy_amount = new_stock.buy_amount,
              !.buy_mode = new_stock.buy_mode,
              !.buy_quantity = new_stock.buy_quantity]

reload_stocks ==
    /\ running = "none"
    /\ db_active
    /\ LET loaded == load_all_stocks(db)
       IN  /\ stock' = copy_settings(merge_reloaded(stock, loaded),
                                     load_stock_settings(db_stock))
           /\ gen' = IF stock'.purchases # stock.purchases THEN gen + 1 ELSE gen
    /\ UNCHANGED <<last_sell_time, db, db_active, lock, recent_sells, prices, available_amount,
                   now, market_open, bot_enabled, task, running>>
    /\ UNCHANGED <<db_stock, kis_ws, poller, kis_api, requests, reload_counter>>

update_balance(amount) ==
    /\ running = "none"
    /\ amount # None
    /\ available_amount' = amount
    /\ UNCHANGED <<last_sell_time, stock, gen, db, db_active, lock, recent_sells, prices, now,
                   market_open, bot_enabled, task, running>>
    /\ UNCHANGED <<db_stock, kis_ws, poller, kis_api, requests, reload_counter>>

(***************************************************************************)
(* Reconciliation of broker fills into the table                           *)
(* (supabase_client.py:505-591).                                           *)
(***************************************************************************)
Fills == { [price |-> 9500, quantity |-> 10] }

\* a match that leaves out a difference of exactly 1%
find_matching_purchase_strict(rows, price, quantity) ==
    LET found == { i \in 1..Len(rows) :
                       /\ rows[i].status = "holding"
                       /\ (IF price > 0 THEN Abs(rows[i].price - price) * 100 < price
                           ELSE TRUE)
                       /\ rows[i].quantity = quantity }
    IN  IF found = {} THEN 0 ELSE CHOOSE i \in found : \A j \in found : i <= j

\* abs(p.price - price) / price <= 0.01 and the quantities equal, p holding
find_matching_purchase(rows, price, quantity) ==
    LET found == { i \in 1..Len(rows) :
                       /\ rows[i].status = "holding"
                       /\ (IF price > 0 THEN Abs(rows[i].price - price) * 100 <= price
                           ELSE TRUE)
                       /\ rows[i].quantity = quantity }
    IN  IF found = {} THEN 0 ELSE CHOOSE i \in found : \A j \in found : i <= j

holding_count(rows) == Cardinality({ i \in 1..Len(rows) : rows[i].status = "holding" })

sync_buy_order_to_purchase(fill) ==
    /\ running = "none"
    /\ IF find_matching_purchase(db, fill.price, fill.quantity) # 0
       THEN UNCHANGED db
       ELSE /\ Len(db) < MaxPurchases
            /\ db' = Append(db, Row(holding_count(db) + 1, fill.price, fill.quantity))
    /\ UNCHANGED <<last_sell_time, stock, gen, db_active, lock, recent_sells, prices,
                   available_amount, now, market_open, bot_enabled, task, running>>
    /\ UNCHANGED <<db_stock, kis_ws, poller, kis_api, requests, reload_counter>>

(***************************************************************************)
(* The environment: the clock, the trading window, the is_running setting. *)
(* The trading window closes and opens whenever the clock says so, also    *)
(* while a handler is suspended.  The is_running setting is read only      *)
(* where a handler starts, so a change of it while a handler is in flight  *)
(* acts as a change right after it.                                        *)
(***************************************************************************)
quiescent == running = "none" /\ \A t \in Tasks : task[t].pc = "idle"

advance_clock(d) ==
    /\ running = "none"
    /\ now + d <= MaxTime
    /\ now' = now + d
    /\ UNCHANGED <<last_sell_time, stock, gen, db, db_active, lock, recent_sells, prices,
                   available_amount, market_open, bot_enabled, task, running>>
    /\ UNCHANGED <<db_stock, kis_ws, poller, kis_api, requests, reload_counter>>

set_market_open(b) ==
    /\ running = "none"
    /\ market_open # b
    /\ market_open' = b
    /\ UNCHANGED <<last_sell_time, stock, gen, db, db_active, lock, recent_sells, prices,
                   available_amount, now, bot_enabled, task, running>>
    /\ UNCHANGED <<db_stock, kis_ws, poller, kis_api, requests, reload_counter>>

set_bot_enabled(b) ==
    /\ quiescent
    /\ bot_enabled # b
    /\ bot_enabled' = b
    /\ UNCHANGED <<last_sell_time, stock, gen, db, db_active, lock, recent_sells, prices,
                   available_amount, now, market_open, task, running>>
    /\ UNCHANGED <<db_stock, kis_ws, poller, kis_api, requests, reload_counter>>

Next ==
    \/ \E t \in TickTasks, price \in TickPrices : on_price_update(t, price)
    \/ \E t \in TickTasks : execute_sell_begin(t)
    \/ \E t \in TickTasks : sell_order(t)
    \/ \E t \in TickTasks : sell_resume(t)
    \/ \E t \in TickTasks : sell_finally(t)
    \/ \E t \in TickTasks : buy_check(t)
    \/ \E t \in TickTasks : execute_buy_begin(t)
    \/ \E t \in TickTasks : buy_slippage(t)
    \/ \E t \in TickTasks : buy_order(t)
    \/ \E t \in TickTasks : get_executed_price(t)
    \/ \E t \in TickTasks : buy_save(t)
    \/ \E t \in TickTasks : buy_error_resume(t)
    \/ \E t \in TickTasks : buy_alert(t)
    \/ \E t \in TickTasks : buy_finally(t)
    \/ \E quantity \in WebQuantities : execute_web_buy_request(quantity)
    \/ wb_order
    \/ wb_save
    \/ wb_resume
    \/ wb_finally
    \/ \E purchase_id \in 1..MaxPurchases : execute_web_sell_request(purchase_id)
    \/ ws_order
    \/ ws_resume
    \/ ws_finally
    \/ reload_stocks
    \/ \E amount \in Amounts : update_balance(amount)
    \/ \E fill \in Fills : sync_buy_order_to_purchase(fill)
    \/ \E d \in ClockSteps : advance_clock(d)
    \/ \E b \in BOOLEAN : set_market_open(b)
    \/ \E b \in BOOLEAN : set_bot_enabled(b)

Spec == Init /\ [][Next]_vars



(***************************************************************************)
(* The ledger on its own: one StockConfig (split_strategy.py:27-283) whose *)
(* methods are called in any order with any of a few arguments, and the    *)
(* strategy evaluator asked about any of a few prices.  The price asked    *)
(* about is kept in prices, the clock in now.                              *)
(***************************************************************************)
MaxLedger == 2          \* entries of the ledger
MaxLedgerTime == 60     \* the clock stops advancing here (seconds)

LedgerSplitRates == { <<10>>, <<10, 10, 10>> }
LedgerMaxRounds == {1, 3}
LedgerPrices == {9000, 9999, 10000}         \* fill prices
EvalPrices == {8999, 9000, 9450, 10498, 10500}
LedgerClockSteps == {30}
SoldPrices == {10500}
PendingOrders == { <<"buy", 2>>, <<"sell", 1>>, <<"sell", 2>> }

LedgerStock(split_rates, max_rounds) ==
    [InitStock(<<>>) EXCEPT !.split_rates = split_rates, !.max_rounds = max_rounds]

LedgerInit ==
    /\ stock \in { LedgerStock(sr, mr) : sr \in LedgerSplitRates, mr \in LedgerMaxRounds }
    /\ prices = 0
    /\ now = 0
    /\ gen = 0
    /\ db = <<>>
    /\ db_active = TRUE
    /\ lock = "none"
    /\ recent_sells = None
    /\ available_amount = None
    /\ market_open = TRUE
    /\ bot_enabled = TRUE
    /\ task = [t \in Tasks |-> Idle]
    /\ running = "none"
    /\ last_sell_time = None
    /\ db_stock = DefaultColumns
    /\ kis_ws = KisWebSocket
    /\ poller = PollerIdle
    /\ kis_api = KisAPI
    /\ requests = NoRequests
    /\ reload_counter = 0

call_add_purchase(price, quantity) ==
    /\ Len(stock.purchases) < MaxLedger
    /\ stock' = add_purchase(stock, price, quantity, 0, now)
    /\ UNCHANGED <<gen, db, db_active, lock, recent_sells, prices, available_amount,
                   now, market_open, bot_enabled, task, running, last_sell_time>>
    /\ UNCHANGED <<db_stock, kis_ws, poller, kis_api, requests, reload_counter>>

call_mark_sold(i, sold_price) ==
    /\ i \in HoldingIdx(stock.purchases)
    /\ stock' = mark_sold(stock, i, sold_price)
    /\ UNCHANGED <<gen, db, db_active, lock, recent_sells, prices, available_amount,
                   now, market_open, bot_enabled, task, running, last_sell_time>>
    /\ UNCHANGED <<db_stock, kis_ws, poller, kis_api, requests, reload_counter>>

call_set_order_pending(order) ==
    /\ stock' = set_order_pending(stock, order[1], order[2])
    /\ UNCHANGED <<gen, db, db_active, lock, recent_sells, prices, available_amount,
                   now, market_open, bot_enabled, task, running, last_sell_time>>
    /\ UNCHANGED <<db_stock, kis_ws, poller, kis_api, requests, reload_counter>>

call_clear_order_pending ==
    /\ stock' = clear_order_pending(stock)
    /\ UNCHANGED <<gen, db, db_active, lock, recent_sells, prices, available_amount,
                   now, market_open, bot_enabled, task, running, last_sell_time>>
    /\ UNCHANGED <<db_stock, kis_ws, poller, kis_api, requests, reload_counter>>

\* is_active is a plain field, written by the reload and by execute_buy
set_is_active(b) ==
    /\ stock.is_active # b
    /\ stock' = [stock EXCEPT !.is_active = b]
    /\ UNCHANGED <<gen, db, db_active, lock, recent_sells, prices, available_amount,
                   now, market_open, bot_enabled, task, running, last_sell_time>>
    /\ UNCHANGED <<db_stock, kis_ws, poller, kis_api, requests, reload_counter>>

\* the price the evaluator is asked about: the argument of should_buy,
\* should_sell, get_sellable_purchases
ask_price(price) ==
    /\ prices' = price
    /\ UNCHANGED <<stock, gen, db, db_active, lock, recent_sells, available_amount,
                   now, market_open, bot_enabled, task, running, last_sell_time>>
    /\ UNCHANGED <<db_stock, kis_ws, poller, kis_api, requests, reload_counter>>

ledger_clock(d) ==
    /\ now + d <= MaxLedgerTime
    /\ now' = now + d
    /\ UNCHANGED <<stock, gen, db, db_active, lock, recent_sells, prices,
                   available_amount, market_open, bot_enabled, task, running,
                   last_sell_time>>
    /\ UNCHANGED <<db_stock, kis_ws, poller, kis_api, requests, reload_counter>>

LedgerNext ==
    \/ \E price \in LedgerPrices : call_add_purchase(price, 10)
    \/ \E i \in 1..MaxLedger, sold_price \in SoldPrices : call_mark_sold(i, sold_price)
    \/ \E order \in PendingOrders : call_set_order_pending(order)
    \/ call_clear_order_pending
    \/ \E b \in BOOLEAN : set_is_active(b)
    \/ \E price \in EvalPrices : ask_price(price)
    \/ \E d \in LedgerClockSteps : ledger_clock(d)

LedgerSpec == LedgerInit /\ [][LedgerNext]_vars


(***************************************************************************)
(* The manual paths on their own: an instrument configured with a single   *)
(* round (max_rounds = 1, split_strategy.py:39) and one holding round,     *)
(* the bot enabled inside market hours, requests from the web, broker      *)
(* fills reconciled into the table, and the periodic reload.               *)
(***************************************************************************)
ManualInit ==
    /\ db = <<Row(1, 10000, 10)>>
    /\ stock = [InitStock(db) EXCEPT !.max_rounds = 1]
    /\ gen = 0
    /\ db_active = TRUE
    /\ lock = "none"
    /\ recent_sells = None
    /\ prices = 0
    /\ available_amount = None
    /\ now = 0
    /\ market_open = TRUE
    /\ bot_enabled = TRUE
    /\ task = [t \in Tasks |-> Idle]
    /\ running = "none"
    /\ last_sell_time = None
    /\ db_stock = DefaultColumns
    /\ kis_ws = KisWebSocket
    /\ poller = PollerIdle
    /\ kis_api = KisAPI
    /\ requests = NoRequests
    /\ reload_counter = 0

ManualNext ==
    \/ \E quantity \in WebQuantities : execute_web_buy_request(quantity)
    \/ wb_order
    \/ wb_save
    \/ wb_resume
    \/ wb_finally
    \/ \E purchase_id \in 1..MaxPurchases : execute_web_sell_request(purchase_id)
    \/ ws_order
    \/ ws_resume
    \/ ws_finally
    \/ reload_stocks
    \/ \E amount \in Amounts : update_balance(amount)
    \/ \E fill \in Fills : sync_buy_order_to_purchase(fill)
    \/ \E d \in ClockSteps : advance_clock(d)

ManualSpec == ManualInit /\ [][ManualNext]_vars


(***************************************************************************)
(* Order sizing on its own: an instrument whose bot_stocks row is set to   *)
(* either sizing mode, loaded at start-up (load_stocks_from_db,            *)
(* main.py:96-116), the notional edited from the web, the periodic reload, *)
(* and ticks that meet the buy condition.                                  *)
(***************************************************************************)
SizingColumns ==
    [buy_amount : {5000, 100000}, buy_mode : {"amount", "quantity"}, buy_quantity : {1, 5}]

SizingPrices == {8000, 9000}

SizingInit ==
    /\ db_stock \in SizingColumns
    /\ db = <<Row(1, 10000, 10)>>
    /\ stock = copy_settings(InitStock(db), load_stock_settings(db_stock))
    /\ gen = 0
    /\ db_active = TRUE
    /\ lock = "none"
    /\ recent_sells = None
    /\ prices = 0
    /\ available_amount = None
    /\ now = 0
    /\ market_open = TRUE
    /\ bot_enabled = TRUE
    /\ task = [t \in Tasks |-> Idle]
    /\ running = "none"
    /\ last_sell_time = None
    /\ kis_ws = KisWebSocket
    /\ poller = PollerIdle
    /\ kis_api = KisAPI
    /\ requests = NoRequests
    /\ reload_counter = 0

\* the web writes a new buy_amount into the row
edit_buy_amount(amount) ==
    /\ db_stock.buy_amount # amount
    /\ db_stock' = [db_stock EXCEPT !.buy_amount = amount]
    /\ UNCHANGED <<stock, gen, db, db_active, lock, recent_sells, prices,
                   available_amount, now, market_open, bot_enabled, task, running,
                   last_sell_time, kis_ws, poller, kis_api, requests, reload_counter>>

SizingNext ==
    \/ \E amount \in {c.buy_amount : c \in SizingColumns} : edit_buy_amount(amount)
    \/ reload_stocks
    \/ \E t \in TickTasks, price \in SizingPrices : on_price_update(t, price)
    \/ \E t \in TickTasks : buy_check(t)
    \/ \E t \in TickTasks : execute_buy_begin(t)
    \/ \E t \in TickTasks : buy_slippage(t)
    \/ \E t \in TickTasks : buy_order(t)
    \/ \E t \in TickTasks : get_executed_price(t)
    \/ \E t \in TickTasks : buy_save(t)
    \/ \E t \in TickTasks : buy_error_resume(t)
    \/ \E t \in TickTasks : buy_alert(t)
    \/ \E t \in TickTasks : buy_finally(t)
    \/ \E d \in ClockSteps : advance_clock(d)

SizingSpec == SizingInit /\ [][SizingNext]_vars


(***************************************************************************)
(* Reconciliation on its own: broker fills applied to the table of one     *)
(* instrument by sync_buy_order_to_purchase and                            *)
(* sync_sell_order_to_purchase (supabase_client.py:505-591).               *)
(***************************************************************************)
ReconcileTables ==
    { <<>> } \cup { <<Row(1, price, quantity)>> : price \in {9005, 9090, 9091},
                                                 quantity \in {50, 100} }

BuyFills == { [price |-> 9000, quantity |-> 100], [price |-> 9500, quantity |-> 100],
              [price |-> 9000, quantity |-> 50] }

SellFills == { [price |-> 9600, quantity |-> 100], [price |-> 9700, quantity |-> 50] }

\* the first holding row with the fill's quantity, 0 for None
find_unmatched_purchase_for_sell(rows, quantity) ==
    LET found == { i \in 1..Len(rows) :
                       rows[i].status = "holding" /\ rows[i].quantity = quantity }
    IN  IF found = {} THEN 0 ELSE CHOOSE i \in found : \A j \in found : i <= j

\* the table after sync_sell_order_to_purchase when the PATCH is accepted
sync_sell_rows(rows, fill) ==
    LET i == find_unmatched_purchase_for_sell(rows, fill.quantity)
    IN  IF i = 0 THEN rows
        ELSE [rows EXCEPT ![i].status = "sold", ![i].sold_price = fill.price]

sync_sell_order_to_purchase(fill) ==
    /\ running = "none"
    /\ \E outcome \in {"ok", "error"} :
         db' = IF outcome = "ok" THEN sync_sell_rows(db, fill) ELSE db
    /\ UNCHANGED <<stock, gen, db_active, lock, recent_sells, prices, available_amount,
                   now, market_open, bot_enabled, task, running, last_sell_time,
                   db_stock, kis_ws, poller, kis_api, requests, reload_counter>>

ReconcileInit ==
    /\ db \in ReconcileTables
    /\ stock = InitStock(db)
    /\ gen = 0
    /\ db_active = TRUE
    /\ lock = "none"
    /\ recent_sells = None
    /\ prices = 0
    /\ available_amount = None
    /\ now = 0
    /\ market_open = TRUE
    /\ bot_enabled = TRUE
    /\ task = [t \in Tasks |-> Idle]
    /\ running = "none"
    /\ last_sell_time = None
    /\ db_stock = DefaultColumns
    /\ kis_ws = KisWebSocket
    /\ poller = PollerIdle
    /\ kis_api = KisAPI
    /\ requests = NoRequests
    /\ reload_counter = 0

ReconcileNext ==
    \/ \E fill \in BuyFills : sync_buy_order_to_purchase(fill)
    \/ \E fill \in SellFills : sync_sell_order_to_purchase(fill)

ReconcileSpec == ReconcileInit /\ [][ReconcileNext]_vars


(***************************************************************************)
(* The streaming channel on its own: KisWebSocket.connect                  *)
(* (kis_websocket.py:124-196), run once as a task by start                 *)
(* (main.py:1261-1271).  The bot is not enabled, so a tick that arrives    *)
(* only reaches the price cache.                                           *)
(***************************************************************************)
MaxStreamTime == 600    \* the clock stops advancing here (seconds)

StreamClockSteps == {60}

\* a wait that does not grow
wait_time_fixed(connection_failed_count) == 60

\* wait_time = min(60 * self._connection_failed_count, 300)
wait_time(connection_failed_count) == Min(60 * connection_failed_count, 300)

StreamFrame ==
    UNCHANGED <<stock, gen, db, db_active, lock, recent_sells, prices, available_amount,
                market_open, bot_enabled, task, running, last_sell_time, db_stock,
                poller, kis_api, requests, reload_counter>>

\* connect() up to the loop: the approval key (kis_websocket.py:130-135)
ws_connect_begin ==
    /\ kis_ws.pc = "created"
    /\ \E approval_key \in BOOLEAN :
         kis_ws' = IF approval_key
                   THEN [kis_ws EXCEPT !.pc = "connecting", !.running = TRUE]
                   ELSE [kis_ws EXCEPT !.pc = "returned"]
    /\ UNCHANGED now
    /\ StreamFrame

\* what follows the try block of the loop (kis_websocket.py:184-196)
after_connection(ws, now_) ==
    IF ~ws.running THEN [ws EXCEPT !.pc = "returned"]
    ELSE IF ws.connection_failed_count + 1 >= 5
         THEN [ws EXCEPT !.connection_failed_count = @ + 1, !.running = FALSE,
                         !.pc = "returned"]
         ELSE [ws EXCEPT !.connection_failed_count = @ + 1,
                         !.wait_time = wait_time(ws.connection_failed_count + 1),
                         !.wake = now_ + wait_time(ws.connection_failed_count + 1),
                         !.pc = "sleeping"]

\* websockets.connect(...) succeeds or raises (kis_websocket.py:156-182)
ws_connect ==
    /\ kis_ws.pc = "connecting"
    /\ \E connected \in BOOLEAN :
         kis_ws' = IF connected
                   THEN [kis_ws EXCEPT !.pc = "connected", !.connection_failed_count = 0]
                   ELSE after_connection(kis_ws, now)
    /\ UNCHANGED now
    /\ StreamFrame

\* the message loop ends: the connection was closed or an error was raised
ws_closed ==
    /\ kis_ws.pc = "connected"
    /\ kis_ws' = after_connection(kis_ws, now)
    /\ UNCHANGED now
    /\ StreamFrame

\* asyncio.sleep(wait_time) is over, back to `while self._running`
ws_wake ==
    /\ kis_ws.pc = "sleeping"
    /\ now >= kis_ws.wake
    /\ kis_ws' = [kis_ws EXCEPT !.pc = IF kis_ws.running THEN "connecting" ELSE "returned"]
    /\ UNCHANGED now
    /\ StreamFrame

\* stop() (kis_websocket.py:282-284)
ws_stop ==
    /\ kis_ws.running
    /\ kis_ws' = [kis_ws EXCEPT !.running = FALSE]
    /\ UNCHANGED now
    /\ StreamFrame

\* a tick arrives on the open connection: _handle_message calls the callback,
\* which starts on_price_update (kis_websocket.py:228-232, main.py:1264)
ws_message(price) ==
    /\ kis_ws.pc = "connected"
    /\ on_price_update("stream", price)

stream_clock(d) ==
    /\ now + d <= MaxStreamTime
    /\ now' = now + d
    /\ UNCHANGED kis_ws
    /\ StreamFrame

StreamInit ==
    /\ db = <<Row(1, 10000, 10)>>
    /\ stock = InitStock(db)
    /\ gen = 0
    /\ db_active = TRUE
    /\ lock = "none"
    /\ recent_sells = None
    /\ prices = 0
    /\ available_amount = None
    /\ now = 0
    /\ market_open = TRUE
    /\ bot_enabled = FALSE
    /\ task = [t \in Tasks |-> Idle]
    /\ running = "none"
    /\ last_sell_time = None
    /\ db_stock = DefaultColumns
    /\ kis_ws = KisWebSocket
    /\ poller = PollerIdle
    /\ kis_api = KisAPI
    /\ requests = NoRequests
    /\ reload_counter = 0

StreamNext ==
    \/ ws_connect_begin
    \/ ws_connect
    \/ ws_closed
    \/ ws_wake
    \/ ws_stop
    \/ \E price \in TickPrices : ws_message(price)
    \/ \E d \in StreamClockSteps : stream_clock(d)

StreamSpec == StreamInit /\ [][StreamNext]_vars


(***************************************************************************)
(* The polling loop on its own: poll_prices (main.py:455-549) over the     *)
(* tracked instruments of one batch.  What on_price_update does with a     *)
(* tick is left out here, only how it ends is kept: it returns, or an      *)
(* exception leaves it.  valid_prices holds the codes with a valid price   *)
(* in the order they are iterated, passed the codes on_price_update was    *)
(* called for in the cycle.                                                *)
(***************************************************************************)
Codes == {1, 2}         \* the tracked instruments; 1 is the one of `stock`

PollPrices == {9000}

HandlerEnds == {"returned", "raised"}

RECURSIVE InOrder(_)
InOrder(codes) ==
    IF codes = {} THEN <<>>
    ELSE LET c == CHOOSE x \in codes : \A y \in codes : x <= y
         IN  <<c>> \o InOrder(codes \ {c})

PollFrame ==
    UNCHANGED <<stock, gen, db, db_active, lock, recent_sells, available_amount, now,
                market_open, bot_enabled, task, running, last_sell_time, db_stock,
                kis_ws, kis_api, requests, reload_counter>>

\* the top of a cycle: is_market_open = self.is_market_open() (main.py:459)
poll_cycle_begin ==
    /\ running = "none"
    /\ poller.pc = "sleep"
    /\ poller' = [PollerIdle EXCEPT !.pc = "batch", !.is_market_open = market_open,
                                    !.enabled = TRUE]
    /\ UNCHANGED prices
    /\ PollFrame

\* supabase.update_stock_prices_batch(valid_prices) (main.py:494): the rows'
\* price columns, which are no part of the state here
update_stock_prices_batch(valid_prices) == Len(valid_prices)

\* get_prices_batch and the handling of its answer (main.py:481-497): the
\* valid prices go to the cache and to the table; an empty answer leads to the
\* queries one by one
poll_batch ==
    /\ running = "none"
    /\ poller.pc = "batch"
    /\ \/ \E answered \in SUBSET Codes, valid \in SUBSET Codes, price \in PollPrices :
            /\ valid \subseteq answered
            /\ prices' = IF 1 \in valid THEN price ELSE prices
            /\ IF answered = {}
               THEN poller' = [poller EXCEPT !.pc = "fallback", !.i = 1,
                                             !.batch_result = "empty"]
               ELSE LET saved_count == update_stock_prices_batch(InOrder(valid))
                    IN  poller' = [poller EXCEPT
                                     !.batch_result = "answered",
                                     !.valid_prices = InOrder(valid),
                                     !.enabled = bot_enabled,
                                     !.i = 1,
                                     !.pc = IF poller.is_market_open /\ bot_enabled
                                            THEN "pass" ELSE "cycle_end"]
       \* get_prices_batch raises: _get_headers, outside its try, goes to
       \* _refresh_token, which raises Exception (kis_api.py:127-135, 660);
       \* the batch's except takes it (main.py:537-538)
       \/ /\ poller' = [poller EXCEPT !.batch_result = "raised", !.pc = "cycle_end"]
          /\ UNCHANGED prices
    /\ PollFrame

\* for code, price_data in valid_prices.items(): await self.on_price_update(data)
\* (main.py:497-507); an exception that leaves on_price_update leaves the loop
\* and is caught by the batch's except (main.py:537-538)
poll_pass ==
    /\ running = "none"
    /\ poller.pc = "pass"
    /\ IF poller.i > Len(poller.valid_prices)
       THEN poller' = [poller EXCEPT !.pc = "cycle_end"]
       ELSE \E ends \in HandlerEnds :
              poller' = [poller EXCEPT
                           !.passed = @ \cup {poller.valid_prices[poller.i]},
                           !.i = @ + 1,
                           !.pc = IF ends = "raised" THEN "cycle_end" ELSE "pass"]
    /\ UNCHANGED prices
    /\ PollFrame

\* the queries one by one after a failed batch (main.py:511-535), each in its
\* own try: get_price, the cache, update_stock_price (which may raise) and then
\* on_price_update
poll_fallback ==
    /\ running = "none"
    /\ poller.pc = "fallback"
    /\ IF poller.i \notin Codes
       THEN /\ poller' = [poller EXCEPT !.pc = "cycle_end"]
            /\ UNCHANGED prices
       ELSE \E price \in PollPrices \cup {0}, saved \in DbOutcomes :
              IF price > 0
              THEN /\ prices' = IF poller.i = 1 THEN price ELSE prices
                   /\ poller' = [poller EXCEPT
                                    !.queried = @ \cup {poller.i},
                                    !.valid_prices = Append(@, poller.i),
                                    !.enabled = IF saved # "raise" /\ poller.is_market_open
                                                THEN @ /\ bot_enabled ELSE @,
                                    !.passed = IF /\ saved # "raise"
                                                  /\ poller.is_market_open
                                                  /\ bot_enabled
                                               THEN @ \cup {poller.i} ELSE @,
                                    !.i = @ + 1]
              ELSE /\ saved = "ok"
                   /\ poller' = [poller EXCEPT !.queried = @ \cup {poller.i}, !.i = @ + 1]
                   /\ UNCHANGED prices
    /\ PollFrame

\* await asyncio.sleep(interval) (main.py:544-549)
poll_cycle_end ==
    /\ running = "none"
    /\ poller.pc = "cycle_end"
    /\ poller' = [poller EXCEPT !.pc = "sleep"]
    /\ UNCHANGED prices
    /\ PollFrame

PollInit ==
    /\ db = <<Row(1, 10000, 10)>>
    /\ stock = InitStock(db)
    /\ gen = 0
    /\ db_active = TRUE
    /\ lock = "none"
    /\ recent_sells = None
    /\ prices = 0
    /\ available_amount = None
    /\ now = 0
    /\ market_open \in BOOLEAN
    /\ bot_enabled = FALSE
    /\ task = [t \in Tasks |-> Idle]
    /\ running = "none"
    /\ last_sell_time = None
    /\ db_stock = DefaultColumns
    /\ kis_ws = KisWebSocket
    /\ poller = PollerIdle
    /\ kis_api = KisAPI
    /\ requests = NoRequests
    /\ reload_counter = 0

PollNext ==
    \/ poll_cycle_begin
    \/ poll_batch
    \/ poll_pass
    \/ poll_fallback
    \/ poll_cycle_end
    \/ \E b \in BOOLEAN : set_market_open(b)
    \/ \E b \in BOOLEAN : set_bot_enabled(b)

PollSpec == PollInit /\ [][PollNext]_vars


(***************************************************************************)
(* The broker client's token on its own: KisAPI.access_token,              *)
(* _refresh_token, _can_refresh_token and a price query get_price          *)
(* (kis_api.py:69-241).  A query is split at its HTTP requests.            *)
(***************************************************************************)
MaxTokenTime == 130     \* the clock stops advancing here (seconds)
MaxTokenFailures == 5   \* consecutive failed refreshes

TokenClockSteps == {10}

Responses == {"ok", "rejected", "server_error"}

Pow2(k) == IF k = 0 THEN 1 ELSE IF k = 1 THEN 2 ELSE IF k = 2 THEN 4
           ELSE IF k = 3 THEN 8 ELSE IF k = 4 THEN 16 ELSE IF k = 5 THEN 32 ELSE 64

\* min(120, 10 * (2 ** self._token_refresh_failures))
cooldown(token_refresh_failures) == Min(120, 10 * Pow2(token_refresh_failures))

can_refresh_token(api, now_) ==
    \/ api.last_token_refresh = None
    \/ ~(now_ - api.last_token_refresh < cooldown(api.token_refresh_failures))

TokenFrame ==
    UNCHANGED <<stock, gen, db, db_active, lock, recent_sells, prices, available_amount,
                market_open, bot_enabled, task, running, last_sell_time, db_stock,
                kis_ws, poller, requests, reload_counter>>

\* get_price up to its first request: _get_headers reads access_token, which
\* returns the cached token or goes to _refresh_token
get_price_begin ==
    /\ kis_api.pc = "idle"
    /\ kis_api' = [kis_api EXCEPT !.pc = IF kis_api.has_token THEN "request" ELSE "refresh"]
    /\ UNCHANGED now
    /\ TokenFrame

\* _refresh_token: the time is recorded first; a token in the answer resets the
\* failure count, anything else adds one and raises, which ends the query
refresh_token(granted) ==
    /\ kis_api.pc \in {"refresh", "retry_refresh"}
    /\ granted \/ kis_api.token_refresh_failures < MaxTokenFailures
    /\ kis_api' = IF granted
                  THEN [kis_api EXCEPT
                          !.last_token_refresh = now,
                          !.has_token = TRUE,
                          !.token_refresh_failures = 0,
                          !.pc = IF kis_api.pc = "refresh" THEN "request"
                                 ELSE "retry_request"]
                  ELSE [kis_api EXCEPT
                          !.last_token_refresh = now,
                          !.token_refresh_failures = @ + 1,
                          !.pc = "idle"]
    /\ UNCHANGED now
    /\ TokenFrame

\* the answer to the first request (kis_api.py:208-239)
get_price_response(status) ==
    /\ kis_api.pc = "request"
    /\ kis_api' =
         IF status = "server_error"
         THEN IF can_refresh_token(kis_api, now)
              THEN [kis_api EXCEPT !.has_token = FALSE, !.pc = "retry_refresh"]
              ELSE [kis_api EXCEPT !.pc = "idle"]
         ELSE IF status = "ok"
              THEN [kis_api EXCEPT !.token_refresh_failures = 0, !.pc = "idle"]
              ELSE [kis_api EXCEPT !.pc = "idle"]
    /\ UNCHANGED now
    /\ TokenFrame

\* the answer to the request repeated with the new token
get_price_retry_response(status) ==
    /\ kis_api.pc = "retry_request"
    /\ kis_api' = IF status = "ok"
                  THEN [kis_api EXCEPT !.token_refresh_failures = 0, !.pc = "idle"]
                  ELSE [kis_api EXCEPT !.pc = "idle"]
    /\ UNCHANGED now
    /\ TokenFrame

\* datetime.now() passes _token_expires - 1h (kis_api.py:72-74)
token_expires ==
    /\ kis_api.pc = "idle"
    /\ kis_api.has_token
    /\ kis_api' = [kis_api EXCEPT !.has_token = FALSE]
    /\ UNCHANGED now
    /\ TokenFrame

token_clock(d) ==
    /\ kis_api.pc = "idle"
    /\ now + d <= MaxTokenTime
    /\ now' = now + d
    /\ UNCHANGED kis_api
    /\ TokenFrame

TokenInit ==
    /\ db = <<Row(1, 10000, 10)>>
    /\ stock = InitStock(db)
    /\ gen = 0
    /\ db_active = TRUE
    /\ lock = "none"
    /\ recent_sells = None
    /\ prices = 0
    /\ available_amount = None
    /\ now = 0
    /\ market_open = TRUE
    /\ bot_enabled = TRUE
    /\ task = [t \in Tasks |-> Idle]
    /\ running = "none"
    /\ last_sell_time = None
    /\ db_stock = DefaultColumns
    /\ kis_ws = KisWebSocket
    /\ poller = PollerIdle
    /\ kis_api = KisAPI
    /\ requests = NoRequests
    /\ reload_counter = 0

TokenNext ==
    \/ get_price_begin
    \/ \E granted \in BOOLEAN : refresh_token(granted)
    \/ \E status \in Responses : get_price_response(status)
    \/ \E status \in Responses : get_price_retry_response(status)
    \/ token_expires
    \/ \E d \in TokenClockSteps : token_clock(d)

TokenSpec == TokenInit /\ [][TokenNext]_vars


(***************************************************************************)
(* The batching of a polling cycle and the pause after it: poll_prices     *)
(* (main.py:455-481, 539-549) and _calculate_polling_interval, for up to   *)
(* MaxStocks tracked instruments.  What is done with a batch is left out.  *)
(***************************************************************************)
MaxStocks == 61         \* tracked instruments

batch_size == 30        \* main.py:467

StockCounts == {0, 1, 29, 30, 31, 59, 60}

\* a pause that does not grow with the number of instruments
calculate_polling_interval_flat(stocks) == 1

\* _calculate_polling_interval: max(1, (num_stocks + 29) // 30)
calculate_polling_interval(stocks) == Max(1, (stocks + 29) \div 30)

total_batches(num_stocks) == (num_stocks + batch_size - 1) \div batch_size

BatchFrame ==
    UNCHANGED <<stock, gen, db, db_active, lock, recent_sells, prices, available_amount,
                now, bot_enabled, task, running, last_sell_time, db_stock, kis_ws,
                kis_api, requests, reload_counter>>

\* the top of a cycle (main.py:457-468); with no instrument the loop sleeps 10
\* seconds and starts over
poll_prices_begin ==
    /\ poller.pc = "sleep"
    /\ poller' = IF poller.stocks = 0
                 THEN [poller EXCEPT !.is_market_open = market_open, !.num_stocks = 0,
                                     !.batches = <<>>, !.batch_idx = 0, !.interval = 10]
                 ELSE [poller EXCEPT !.is_market_open = market_open,
                                     !.num_stocks = poller.stocks,
                                     !.batches = <<>>, !.batch_idx = 0,
                                     !.pc = "batches"]
    /\ UNCHANGED market_open
    /\ BatchFrame

\* one turn of `for batch_idx in range(total_batches)` (main.py:470-477, 539-541)
poll_prices_batch ==
    /\ poller.pc = "batches"
    /\ poller' =
         IF poller.batch_idx < total_batches(poller.num_stocks)
         THEN LET start_idx == poller.batch_idx * batch_size
                  end_idx == Min(start_idx + batch_size, poller.num_stocks)
              IN  [poller EXCEPT !.batches = Append(@, <<start_idx, end_idx>>),
                                 !.batch_idx = @ + 1]
         ELSE [poller EXCEPT !.pc = "pause"]
    /\ UNCHANGED market_open
    /\ BatchFrame

\* the pause after the batches (main.py:544-549)
poll_prices_sleep ==
    /\ poller.pc = "pause"
    /\ poller' = [poller EXCEPT
                    !.interval = IF poller.is_market_open
                                 THEN calculate_polling_interval(poller.stocks)
                                 ELSE 300,
                    !.pc = "sleep"]
    /\ UNCHANGED market_open
    /\ BatchFrame

\* _reload_stocks adds an instrument that is new in the table (main.py:958-961)
add_stock ==
    /\ poller.stocks < MaxStocks
    /\ poller' = [poller EXCEPT !.stocks = @ + 1]
    /\ UNCHANGED market_open
    /\ BatchFrame

market_opens_or_closes ==
    /\ market_open' = ~market_open
    /\ UNCHANGED poller
    /\ BatchFrame

BatchInit ==
    /\ db = <<Row(1, 10000, 10)>>
    /\ stock = InitStock(db)
    /\ gen = 0
    /\ db_active = TRUE
    /\ lock = "none"
    /\ recent_sells = None
    /\ prices = 0
    /\ available_amount = None
    /\ now = 0
    /\ market_open \in BOOLEAN
    /\ bot_enabled = TRUE
    /\ task = [t \in Tasks |-> Idle]
    /\ running = "none"
    /\ last_sell_time = None
    /\ db_stock = DefaultColumns
    /\ kis_ws = KisWebSocket
    /\ \E n \in StockCounts : poller = [PollerIdle EXCEPT !.stocks = n]
    /\ kis_api = KisAPI
    /\ requests = NoRequests
    /\ reload_counter = 0

BatchNext ==
    \/ poll_prices_begin
    \/ poll_prices_batch
    \/ poll_prices_sleep
    \/ add_stock
    \/ market_opens_or_closes

BatchSpec == BatchInit /\ [][BatchNext]_vars


(***************************************************************************)
(* The work items on their own: process_sync_requests /                    *)
(* execute_sync_request (main.py:584-591, 857-917) and                     *)
(* process_buy_requests / execute_web_buy_request (main.py:964-1076), with *)
(* the status column of the request rows.  Of the ledger only the broker   *)
(* order is kept.  A database call ends as _request does                   *)
(* (supabase_client.py:34-52): done, an HTTP error that is returned and    *)
(* ignored, or an exception of the requests library.                       *)
(***************************************************************************)
MaxBuyOrders == 2       \* broker buy orders for the request
SyncFills == 2          \* fills in the order history of a run

FillOutcomes == {"matched", "unmatched", "raise"}

\* update_sync_request / update_buy_request: the PATCH of the status column
update_request(status, new_status, outcome) ==
    IF outcome = "ok" THEN new_status ELSE status

RequestFrame ==
    UNCHANGED <<stock, gen, db, db_active, lock, recent_sells, prices, available_amount,
                now, market_open, bot_enabled, task, running, last_sell_time, db_stock,
                kis_ws, poller, kis_api, reload_counter>>

\* the web application inserts a request row
create_request(table) ==
    /\ table \in {"buy", "sync"}
    /\ requests[table] = "none"
    /\ requests' = [requests EXCEPT ![table] = "pending"]
    /\ RequestFrame

\* a status update inside the try of execute_sync_request: if it raises, the
\* except updates to "failed" (main.py:912-914)
update_in_try(status, new_status, outcome, failed) ==
    IF outcome = "raise" THEN update_request(status, "failed", failed)
    ELSE update_request(status, new_status, outcome)

\* execute_sync_request up to the loop over the fills: the update to
\* "processing" is outside the try; an empty history completes the run; an
\* exception of get_order_history or save_sync_results goes to the except
execute_sync_request ==
    /\ requests.pc = "idle"
    /\ requests.sync = "pending"
    /\ \E processing \in DbOutcomes, orders \in {"none", "some", "raise"},
          saved \in DbOutcomes, completed \in DbOutcomes, failed \in DbOutcomes :
         LET status == update_request(requests.sync, "processing", processing)
         IN  requests' =
               IF processing = "raise" THEN requests
               ELSE IF orders = "none"
                    THEN [requests EXCEPT
                            !.sync = update_in_try(status, "completed", completed, failed)]
               ELSE IF orders = "raise" \/ saved = "raise"
                    THEN [requests EXCEPT !.sync = update_request(status, "failed", failed)]
               ELSE [requests EXCEPT !.sync = status, !.fills = 1, !.pc = "sync_fills"]
    /\ RequestFrame

\* one turn of `for order in orders` (main.py:887-903), and after the last one
\* the update to "completed"; an exception in a turn goes to the except, which
\* updates to "failed" (main.py:912-914)
sync_fill ==
    /\ requests.pc = "sync_fills"
    /\ IF requests.fills <= SyncFills
       THEN \E fill \in FillOutcomes, failed \in DbOutcomes :
              requests' =
                IF fill = "raise"
                THEN [requests EXCEPT
                        !.sync = update_request(@, "failed", failed),
                        !.fills = 0, !.pc = "idle"]
                ELSE [requests EXCEPT !.fills = @ + 1]
       ELSE \E completed \in DbOutcomes, failed \in DbOutcomes :
              requests' =
                [requests EXCEPT
                   !.sync = update_in_try(@, "completed", completed, failed),
                   !.fills = 0, !.pc = "idle"]
    /\ RequestFrame

\* process_buy_requests for the pending row: the checks before the order, the
\* order, the ledger write and the status update (main.py:964-1076)
process_buy_requests ==
    /\ requests.pc = "idle"
    /\ market_open /\ bot_enabled
    /\ requests.buy = "pending"
    /\ requests.buy_orders < MaxBuyOrders
    /\ \E checks \in {"pass", "reject"}, order \in {"accepted", "refused"},
          saved \in SaveOutcomes, updated \in DbOutcomes :
         requests' =
           IF checks = "reject" \/ order = "refused"
           THEN [requests EXCEPT !.buy = update_request(@, "failed", updated)]
           ELSE IF saved = "raise"
                THEN [requests EXCEPT !.buy_orders = @ + 1]
                ELSE [requests EXCEPT !.buy_orders = @ + 1,
                                      !.buy = update_request(@, "executed", updated)]
    /\ RequestFrame

RequestInit ==
    /\ db = <<Row(1, 10000, 10)>>
    /\ stock = InitStock(db)
    /\ gen = 0
    /\ db_active = TRUE
    /\ lock = "none"
    /\ recent_sells = None
    /\ prices = 0
    /\ available_amount = None
    /\ now = 0
    /\ market_open \in BOOLEAN
    /\ bot_enabled \in BOOLEAN
    /\ task = [t \in Tasks |-> Idle]
    /\ running = "none"
    /\ last_sell_time = None
    /\ db_stock = DefaultColumns
    /\ kis_ws = KisWebSocket
    /\ poller = PollerIdle
    /\ kis_api = KisAPI
    /\ requests = NoRequests
    /\ reload_counter = 0

RequestNext ==
    \/ \E table \in {"buy", "sync"} : create_request(table)
    \/ execute_sync_request
    \/ sync_fill
    \/ process_buy_requests
    \/ \E b \in BOOLEAN : set_market_open(b)
    \/ \E b \in BOOLEAN : set_bot_enabled(b)

RequestSpec == RequestInit /\ [][RequestNext]_vars


(***************************************************************************)
(* The active flag: the heartbeat loop with its reload every sixth turn    *)
(* (main.py:373-407), a deactivation of the instrument in the              *)
(* configuration store, and the automated buy.                             *)
(***************************************************************************)
ActivePrices == {9000}

\* one turn of the loop of send_heartbeat: reload_counter += 1, and at 6 the
\* counter is reset and _reload_stocks runs; get_stocks selects the rows with
\* is_active = true (supabase_client.py:56-72), so an inactive instrument is
\* not among the loaded ones and nothing is assigned to it
send_heartbeat ==
    /\ running = "none"
    /\ IF reload_counter + 1 >= 6
       THEN /\ reload_counter' = 0
            /\ IF db_active
               THEN /\ stock' = copy_settings(merge_reloaded(stock, load_all_stocks(db)),
                                              load_stock_settings(db_stock))
                    /\ gen' = IF stock'.purchases # stock.purchases THEN gen + 1 ELSE gen
               ELSE UNCHANGED <<stock, gen>>
       ELSE /\ reload_counter' = reload_counter + 1
            /\ UNCHANGED <<stock, gen>>
    /\ UNCHANGED <<db, db_active, lock, recent_sells, prices, available_amount, now,
                   market_open, bot_enabled, task, running, last_sell_time, db_stock,
                   kis_ws, poller, kis_api, requests>>

\* the web sets is_active of the instrument's row (b = FALSE: deactivation)
edit_is_active(b) ==
    /\ db_active # b
    /\ db_active' = b
    /\ UNCHANGED <<stock, gen, db, lock, recent_sells, prices, available_amount, now,
                   market_open, bot_enabled, task, running, last_sell_time, db_stock,
                   kis_ws, poller, kis_api, requests, reload_counter>>

ActiveInit ==
    /\ db = <<Row(1, 10000, 10)>>
    /\ stock = InitStock(db)
    /\ gen = 0
    /\ db_active = TRUE
    /\ lock = "none"
    /\ recent_sells = None
    /\ prices = 0
    /\ available_amount = None
    /\ now = 0
    /\ market_open = TRUE
    /\ bot_enabled = TRUE
    /\ task = [t \in Tasks |-> Idle]
    /\ running = "none"
    /\ last_sell_time = None
    /\ db_stock = DefaultColumns
    /\ kis_ws = KisWebSocket
    /\ poller = PollerIdle
    /\ kis_api = KisAPI
    /\ requests = NoRequests
    /\ reload_counter = 0

ActiveNext ==
    \/ send_heartbeat
    \/ \E b \in BOOLEAN : edit_is_active(b)
    \/ \E t \in TickTasks, price \in ActivePrices : on_price_update(t, price)
    \/ \E t \in TickTasks : buy_check(t)
    \/ \E t \in TickTasks : execute_buy_begin(t)
    \/ \E t \in TickTasks : buy_slippage(t)
    \/ \E t \in TickTasks : buy_order(t)
    \/ \E t \in TickTasks : get_executed_price(t)
    \/ \E t \in TickTasks : buy_save(t)
    \/ \E t \in TickTasks : buy_error_resume(t)
    \/ \E t \in TickTasks : buy_alert(t)
    \/ \E t \in TickTasks : buy_finally(t)
    \/ \E d \in ClockSteps : advance_clock(d)

ActiveSpec == ActiveInit /\ [][ActiveNext]_vars

(***************************************************************************)
(* Properties.                                                             *)
(***************************************************************************)
\* positions of a tick between the buy decision and the end of execute_buy
BuyPcs == {"execute_buy", "buy_slippage", "buy_order", "executed_price", "buy_save",
           "buy_error_notify", "buy_alert", "buy_finally"}

\* positions at which the next statement is the broker call
OrderPcs == {"sell_order", "buy_order", "wb_order", "ws_order"}

MoreThanThreePercent(current_price, trigger_price) ==
    Abs(current_price - trigger_price) * 100 > 3 * trigger_price

C2_HoldingRoundsContiguous ==
    LET h == holding_purchases(stock)
    IN  \A k \in 1..Len(h) : h[k].round = k

\* C3 (as stated): whoever is about to submit an order and to change the
\* ledger, a tick or a manual request, holds the instrument's lock.
C3_OrdersUnderLock ==
    \A t \in Tasks : task[t].pc \in OrderPcs => lock = t

\* C4 (as stated): the ledger a tick decided on is still the ledger when the
\* execution of that decision ends; the reload never replaces it in between.
C4_NoReloadInsideTick ==
    \A t \in TickTasks :
        task[t].pc \in {"sell_notify", "sell_finally"} => task[t].ref.gen = gen

\* C5: a tick that arrives while the lock is held changes nothing but the
\* price cache: no order, no ledger change, nothing left behind to run later.
C5_TickDroppedWhileLocked ==
    [][\A t \in TickTasks, price \in TickPrices :
          (lock # "none" /\ on_price_update(t, price)) =>
              UNCHANGED <<stock, gen, db, db_active, lock, recent_sells,
                          available_amount, now, market_open, bot_enabled,
                          task, running, last_sell_time>>]_vars

\* the cache moved while a tick held the lock
C5_Witness ==
    /\ lock \in TickTasks
    /\ running = "none"
    /\ prices # task[lock].price

\* C6: a tick that is deciding or executing a buy has submitted no sell in
\* this lock acquisition: sells come first, and after a sell there is no buy.
C6_SellsExcludeBuy ==
    \A t \in TickTasks : task[t].pc \in BuyPcs => task[t].sells = <<>>

\* the sells of a tick are done, the buy condition holds, the buy is skipped
C6_Witness ==
    \E t \in TickTasks :
        /\ task[t].pc = "sell_loop"
        /\ task[t].sells # <<>>
        /\ task[t].k > Len(task[t].sells)
        /\ should_buy(stock, task[t].price, now)

\* C7 (as stated): no buy is submitted less than 5 seconds after the broker
\* accepted a sell.
C7_NoBuyInQuietPeriod ==
    \A t \in Tasks :
        task[t].pc \in {"buy_order", "wb_order"} =>
            \/ last_sell_time = None
            \/ now - last_sell_time >= SELL_QUIET_SECONDS

\* C8: a re-fetched price more than 3% away from the trigger price ends
\* execute_buy with no order, no round, the last-order time and the table as
\* they were and the pending flag cleared; a re-fetched price within 3%,
\* exactly 3% included, goes on to the order.  (A re-fetch that gave no price,
\* 0, is not a price to compare; it is the case of C9.)
C8_SlippageGuard ==
    [][\A t \in TickTasks :
          (task[t].pc = "buy_slippage" /\ task'[t].pc # "buy_slippage") =>
              IF task'[t].refetch = 0 THEN TRUE
              ELSE IF MoreThanThreePercent(task'[t].refetch, task[t].price)
              THEN /\ task'[t].pc = "buy_finally"
                   /\ ~task'[t].exc
                   /\ stock'.purchases = stock.purchases
                   /\ stock'.last_order_time = stock.last_order_time
                   /\ ~stock'.order_pending
                   /\ db' = db
              ELSE task'[t].pc = "buy_order"]_vars

\* trigger 9,000, re-fetched 9,300: abandoned
C8_Witness ==
    \E t \in TickTasks :
        /\ task[t].pc = "buy_finally"
        /\ ~task[t].exc
        /\ task[t].price = 9000
        /\ task[t].refetch = 9300

\* C9 (as stated): no buy order is submitted when the re-fetch gave no price.
C9_NoOrderWithoutPrice ==
    \A t \in TickTasks : task[t].pc = "buy_order" => task[t].refetch > 0

\* C10: the pending flag carries the side and the round of an order when the
\* order is submitted, and it is false whenever no execution is in progress,
\* whatever way the executions ended.
NoExecution == \A t \in Tasks : task[t].pc \in {"idle", "sell_loop", "execute_buy"}

C10_PendingFlag ==
    /\ \A t \in Tasks :
         task[t].pc \in OrderPcs =>
            /\ stock.order_pending
            /\ stock.pending_type =
                  (IF task[t].pc \in {"sell_order", "ws_order"} THEN "sell" ELSE "buy")
            /\ stock.pending_round = task[t].round
    /\ NoExecution => ~stock.order_pending

\* execute_buy is on its way out with an exception, the flag still set
C10_Witness ==
    \E t \in TickTasks :
        /\ task[t].pc = "buy_finally"
        /\ task[t].exc
        /\ stock.order_pending


Range(f) == { f[k] : k \in DOMAIN f }

LastHolding(s) == holding_purchases(s)[Len(holding_purchases(s))]

(* C12: the next split price is undefined exactly when the current round   *)
(* is 0 or has reached max_rounds; otherwise it is the last holding        *)
(* round's price lowered by the split rate of the current round (the       *)
(* current_round-th rate), truncated.  Stated for the ledgers whose        *)
(* rate list has a current_round-th entry.                                 *)
C12_NextSplitPrice ==
    LET cr == current_round(stock)
    IN  IF cr = 0 \/ cr >= stock.max_rounds
        THEN get_next_split_price(stock) = None
        ELSE cr <= Len(stock.split_rates)
                 => get_next_split_price(stock)
                        = (LastHolding(stock).price * (100 - stock.split_rates[cr])) \div 100

C14_SellableIff ==
    \A i \in HoldingIdx(stock.purchases) :
        LET R == stock.purchases[i]
            rate == stock.target_rates[Min(R.round - 1, Len(stock.target_rates) - 1) + 1]
        IN  (i \in Range(get_sellable_purchases(stock, prices)))
                <=> prices * 100 >= R.price * (100 + rate)


(* C11: once a bought round could not be written to the ledger (it is in   *)
(* memory without a row id and the write is over), the instrument is       *)
(* inactive, and stays so as long as the round is unsaved.                 *)
C11_UnsavedBuyDeactivates ==
    ( /\ \A t \in TickTasks : task[t].pc # "buy_save"
      /\ \E i \in 1..Len(stock.purchases) :
            stock.purchases[i].id = 0 /\ stock.purchases[i].trigger_price # 0 )
        => ~stock.is_active

(* C17: the round numbers of the ledger, holding and sold, are 1-based and *)
(* strictly increasing in the order the rounds were added: no number is    *)
(* used twice.                                                             *)
C17_RoundNumbersIncrease ==
    \A i, j \in 1..Len(stock.purchases) :
        /\ stock.purchases[i].round >= 1
        /\ i < j => stock.purchases[i].round < stock.purchases[j].round

(* C18: a tick never opens a position: while a tick is in execute_buy      *)
(* before the round is added, the instrument has a holding round.          *)
C18_TickNeverOpens ==
    \A t \in TickTasks :
        task[t].pc \in {"execute_buy", "buy_slippage", "buy_order"}
            => current_round(stock) > 0

\* a tick reaches the buy check with no holding round and no quiet period
C18_Witness ==
    \E t \in TickTasks :
        /\ task[t].pc = "sell_loop"
        /\ task[t].k > Len(task[t].sells)
        /\ current_round(stock) = 0
        /\ stock.is_active
        /\ ~stock.order_pending
        /\ ~(recent_sells # None /\ now - recent_sells < 5)

BalanceBelowMinimum == available_amount # None /\ available_amount < 30000

C15_EveryReturnedRoundSold ==
    \A t \in TickTasks :
        (task[t].pc = "sell_finally" /\ task[t].exc)
            => task[t].k = Len(task[t].sells)


(* C16: the number of holding rounds never exceeds max_rounds, whichever   *)
(* path added the last round.                                              *)
C16_HoldingWithinMaxRounds ==
    Cardinality(HoldingIdx(stock.purchases)) <= stock.max_rounds


(* C20: while the market is closed no automated order is evaluated or      *)
(* submitted: a tick handler is at the buy evaluation or about to submit   *)
(* a sell or a buy order only inside market hours.                         *)
C20_NoOrderWhileClosed ==
    \A t \in TickTasks :
        task[t].pc \in {"sell_order", "execute_buy", "buy_slippage", "buy_order"}
            => market_open


(* C30: no failure raised inside the locked section of on_price_update     *)
(* escapes it: no tick handler is ever on its way out with an exception.   *)
C30_NoFailureEscapes ==
    \A t \in TickTasks : ~task[t].exc


(* C25: a periodic reload leaves the ledger of a tracked instrument alone: *)
(* its holding rounds, its pending flag with side and round, its           *)
(* last-order time and its lock are the same after the reload as before.   *)
C25_ReloadKeepsLedger ==
    [][reload_stocks
          => /\ holding_purchases(stock') = holding_purchases(stock)
             /\ stock'.order_pending = stock.order_pending
             /\ stock'.pending_type = stock.pending_type
             /\ stock'.pending_round = stock.pending_round
             /\ stock'.last_order_time = stock.last_order_time
             /\ lock' = lock]_vars


(* C27: a round that was sold never returns to holding: a ledger entry     *)
(* with a row id that is sold stays sold as long as the ledger has an      *)
(* entry with that id.                                                     *)
C27_SoldStaysSold ==
    [][\A i \in 1..Len(stock.purchases), j \in 1..Len(stock'.purchases) :
          ( /\ stock.purchases[i].status = "sold"
            /\ stock.purchases[i].id # 0
            /\ stock'.purchases[j].id = stock.purchases[i].id )
              => stock'.purchases[j].status = "sold"]_vars


(* C28: an automated order the broker refuses leaves the ledger as it was  *)
(* (no round added or closed, last-order time and table untouched); when   *)
(* its handler ends the pending flag is cleared, and the decision is       *)
(* there to be taken again: a tick at the same price meets the buy         *)
(* condition again, and the round, if still held, is sellable again.       *)
C28_RefusedOrderRetried ==
    [][\A t \in TickTasks :
          /\ (task[t].order = "none" /\ task'[t].order = "refused")
                => /\ stock'.purchases = stock.purchases
                   /\ stock'.last_order_time = stock.last_order_time
                   /\ db' = db
          /\ ( /\ task[t].order = "refused"
               /\ task[t].pc \in {"sell_finally", "buy_finally"}
               /\ task'[t].pc # task[t].pc )
                => /\ ~stock'.order_pending
                   /\ stock'.purchases = stock.purchases
                   /\ task[t].pc = "buy_finally"
                         => should_buy(stock', task[t].price, now')
                   /\ ( /\ task[t].pc = "sell_finally"
                        /\ task[t].ref.gen = gen
                        /\ stock.purchases[task[t].ref.idx].status = "holding"
                        /\ stock.is_active )
                         => task[t].ref.idx \in Range(should_sell(stock', task[t].price))
      ]_vars

\* a tick's buy order was refused and its handler is about to end
C28_Witness ==
    \E t \in TickTasks :
        /\ task[t].pc = "buy_finally"
        /\ task[t].order = "refused"
        /\ stock.order_pending


(* C29: the quantity of an automated buy order is the sizing the           *)
(* instrument is configured with, computed at the trigger price: the       *)
(* configured share count in fixed-share mode, max(1, notional \div price) *)
(* in fixed-notional mode.  Stated for an instrument whose notional in     *)
(* memory is the one of its row.                                           *)
C29_OrderQuantityAsConfigured ==
    \A t \in TickTasks :
        (task[t].pc = "buy_order" /\ stock.buy_amount = db_stock.buy_amount)
            => task[t].quantity
                 = (IF db_stock.buy_mode = "quantity"
                    THEN db_stock.buy_quantity
                    ELSE IF db_stock.buy_amount \div task[t].price >= 1
                         THEN db_stock.buy_amount \div task[t].price
                         ELSE 1)


(* C26: a successful automated buy appends exactly one round: its number   *)
(* is the previous current round plus one, its quantity the ordered        *)
(* quantity, its trigger price the tick price of the decision, and its     *)
(* price the executed price, or the trigger price when three queries of    *)
(* the order history did not resolve it; there are never more than three   *)
(* queries.                                                                *)
C26_BuyAppendsOneRound ==
    /\ [](\A t \in TickTasks : task[t].attempt \in 0..2)
    /\ [][\A t \in TickTasks :
            (task[t].pc = "executed_price" /\ task'[t].pc = "buy_save")
                => LET n == Len(stock.purchases)
                       P == stock'.purchases[n + 1]
                   IN  /\ Len(stock'.purchases) = n + 1
                       /\ SubSeq(stock'.purchases, 1, n) = stock.purchases
                       /\ P.round = current_round(stock) + 1
                       /\ P.round = task[t].round
                       /\ P.quantity = task[t].quantity
                       /\ P.trigger_price = task[t].price
                       /\ P.status = "holding"
                       /\ P.price > 0
                       /\ P.price # task[t].price => P.price \in ExecutedPrices
                       /\ (P.price = task[t].price /\ task[t].price \notin ExecutedPrices)
                             => task[t].attempt = 2
       ]_vars

\* a round was added at the trigger price after the third query failed
C26_Witness ==
    \E t \in TickTasks :
        /\ task[t].pc = "buy_save"
        /\ stock.purchases[Len(stock.purchases)].price = task[t].price
        /\ stock.purchases[Len(stock.purchases)].trigger_price = task[t].price
        /\ stock.purchases[Len(stock.purchases)].id = 0


C24_SellFillIdempotent ==
    \A fill \in SellFills :
        sync_sell_rows(sync_sell_rows(db, fill), fill) = sync_sell_rows(db, fill)


(* C21: the wait before the next connection attempt is 60 seconds times    *)
(* the number of consecutive failures and never more than 300 seconds;     *)
(* with the fifth consecutive failure connect() returns, and once it has   *)
(* returned no attempt is made any more; a connection that succeeds        *)
(* resets the count.                                                       *)
C21_BackoffAndGiveUp ==
    /\ [](kis_ws.pc = "sleeping"
             => /\ kis_ws.connection_failed_count \in 1..4
                /\ kis_ws.wait_time = 60 * kis_ws.connection_failed_count
                /\ kis_ws.wait_time <= 300)
    /\ [](kis_ws.connection_failed_count <= 5)
    /\ [](kis_ws.connection_failed_count = 5 => kis_ws.pc = "returned")
    /\ [][kis_ws.pc = "returned" => kis_ws'.pc = "returned"]_vars
    /\ [][(kis_ws.pc # "connected" /\ kis_ws'.pc = "connected")
              => kis_ws'.connection_failed_count = 0]_vars
    /\ [][(kis_ws.pc # "sleeping" /\ kis_ws'.pc = "sleeping")
              => /\ kis_ws'.connection_failed_count = kis_ws.connection_failed_count + 1
                 /\ kis_ws'.wake = now + kis_ws'.wait_time]_vars
    /\ [][(kis_ws.pc = "sleeping" /\ kis_ws'.pc # "sleeping") => now >= kis_ws.wake]_vars

\* the channel gave up after the fifth consecutive failure
C21_Witness ==
    /\ kis_ws.pc = "returned"
    /\ kis_ws.connection_failed_count = 5
    /\ ~kis_ws.running


(* C22: in each polling cycle that found the market open and the bot       *)
(* enabled, every tracked instrument for which the broker returned a       *)
(* valid price has been passed to on_price_update when the cycle ends.     *)
C22_EveryValidInstrumentPassed ==
    (poller.pc = "cycle_end" /\ poller.is_market_open /\ poller.enabled)
        => \A k \in 1..Len(poller.valid_prices) : poller.valid_prices[k] \in poller.passed


(* C31: a token refresh happens only when no refresh was attempted before  *)
(* or the cooldown has elapsed since the last attempt, the cooldown being  *)
(* 10s, 30s, 60s and then 120s for 0, 1, 2 and more consecutive failures.  *)
C31_RefreshRefusedInCooldown ==
    [][(kis_api.pc \in {"refresh", "retry_refresh"} /\ kis_api'.pc # kis_api.pc)
           => \/ kis_api.last_token_refresh = None
              \/ now - kis_api.last_token_refresh
                    >= (IF kis_api.token_refresh_failures = 0 THEN 10
                        ELSE IF kis_api.token_refresh_failures = 1 THEN 30
                        ELSE IF kis_api.token_refresh_failures = 2 THEN 60
                        ELSE 120)]_vars


C33_FailedBatchQueriedOneByOne ==
    (poller.pc = "cycle_end" /\ poller.batch_result \in {"empty", "raised"})
        => /\ poller.queried = Codes
           /\ (poller.is_market_open /\ poller.enabled)
                 => \A k \in 1..Len(poller.valid_prices) :
                       poller.valid_prices[k] \in poller.passed


(* C40: when on_price_update raises for one instrument of a batch, every   *)
(* instrument of the batch with a valid price is still evaluated in the    *)
(* cycle: the loop over the batch does not end before all were passed.     *)
C40_FailureSkipsNoInstrument ==
    [][(poller.pc = "pass" /\ poller.i <= Len(poller.valid_prices)
                           /\ poller'.pc = "cycle_end")
           => \A k \in 1..Len(poller.valid_prices) :
                 poller.valid_prices[k] \in poller'.passed]_vars


(* C34: an error while one fill of a reconciliation run is processed does  *)
(* not end the run: the loop goes on with the remaining fills and the      *)
(* request does not become failed.                                         *)
C34_FillErrorDoesNotFailRun ==
    [][(requests.pc = "sync_fills" /\ requests.fills <= SyncFills)
           => (requests'.pc = "sync_fills" /\ requests'.sync # "failed")]_vars

(* C35: the status of a work item only moves pending -> processing -> a    *)
(* terminal status (executed, completed or failed), and an item the engine *)
(* has acted on (a broker order was placed for it) is not left pending.    *)
C35_StatusMovesForward ==
    [][/\ requests'.buy # requests.buy
            => <<requests.buy, requests'.buy>> \in
                  { <<"none", "pending">>, <<"pending", "processing">>,
                    <<"processing", "executed">>, <<"processing", "failed">> }
       /\ requests'.sync # requests.sync
            => <<requests.sync, requests'.sync>> \in
                  { <<"none", "pending">>, <<"pending", "processing">>,
                    <<"processing", "completed">>, <<"processing", "failed">> }
       /\ requests'.buy_orders > 0 => requests'.buy # "pending"]_vars

(* C37: a manual web buy request causes at most one broker buy order.      *)
C37_OneOrderPerBuyRequest == requests.buy_orders <= 1


(* C39: after every periodic reload the active flag of the instrument in   *)
(* memory equals its active flag in the configuration store.               *)
C39_ActiveFlagFollowsStore ==
    [][(reload_counter = 5 /\ reload_counter' = 0) => stock'.is_active = db_active']_vars

(* C36: no sell order is accepted for a round that is already sold: when   *)
(* the broker accepts a sell order of a tick or of a web request, the      *)
(* round it names is still holding in the ledger and in the table.         *)
C36_NoSellOfSoldRound ==
    [][/\ \A t \in TickTasks :
            (task[t].pc = "sell_order" /\ task'[t].order = "accepted")
               => /\ task[t].ref.gen = gen
                       => stock.purchases[task[t].ref.idx].status = "holding"
                  /\ task[t].ref.id \in 1..Len(db)
                       => db[task[t].ref.id].status = "holding"
       /\ (task["web"].pc = "ws_order" /\ task'["web"].pc = "ws_notify")
               => /\ task["web"].ref.gen = gen
                       => stock.purchases[task["web"].ref.idx].status = "holding"
                  /\ task["web"].ref.id \in 1..Len(db)
                       => db[task["web"].ref.id].status = "holding"]_vars

(* C38: from the moment an operation sets the pending flag until that      *)
(* operation reaches the statement that clears it, the flag is set and     *)
(* carries that operation's side and round.                                *)
C38_PendingFlagKept ==
    \A t \in Tasks :
        task[t].pc \in {"sell_order", "sell_notify",
                        "buy_slippage", "buy_order", "executed_price", "buy_save",
                        "buy_error_notify", "buy_alert",
                        "wb_order", "wb_save", "wb_notify",
                        "ws_order", "ws_notify"}
           => /\ stock.order_pending
              /\ stock.pending_type =
                    (IF task[t].pc \in {"sell_order", "sell_notify", "ws_order", "ws_notify"}
                     THEN "sell" ELSE "buy")
              /\ stock.pending_round = task[t].round

=============================================================================
